---- MODULE Spec2Model ----
(***************************************************************************)
(* A model of the KASS streaming backbone: the Redis stream consumer with  *)
(* its consumer-group bookkeeping and the batched database writers, the    *)
(* orderbook state manager, the WebSocket connection manager, and the      *)
(* signal processors: the aggregator, the regime detector, the flow        *)
(* toxicity classifier, the cross-market propagation engine and the        *)
(* emission of signals, the ingestion loop, the lifecycle writer, the      *)
(* trade backfill, the construction of signals, the processors' shared     *)
(* consumer group, the subscription manager, the periodic orderbook        *)
(* snapshot, the regime classification and the lifecycle alpha scanner.    *)
(*                                                                         *)
(* Most subsystems do not share state, so each has its own specification   *)
(* (SpecBus, SpecReplay, SpecLive, SpecBook, SpecWS, SpecSeq, SpecAgg,     *)
(* SpecScore, SpecReg, SpecTox, SpecProp, SpecEmit, SpecFlush, SpecStore,  *)
(* SpecIngest, SpecLife, SpecBackfill, SpecMake, SpecGroup, SpecCap,       *)
(* SpecCycle, SpecMgr, SpecSnap, SpecClassify, SpecAlpha) over the         *)
(* variables.                                                              *)
(***************************************************************************)
EXTENDS Integers, Sequences, FiniteSets, Bags, TLC

VARIABLES
    \* ---- message bus, consumer group and database table ----
    stream,          \* the topic: a sequence of payloads, entry id = index
    last_delivered,  \* the group's last-delivered id (what ">" reads after)
    pel,             \* pending-entries list: ids delivered and not acknowledged
    handler,         \* the handler given to consume(), "none" before the first start
    cphase,          \* position of consume(): "stopped", "pending" or "live"
    table,           \* the writer's target table: a bag of rows
    last,            \* what the last handled batch did
    deleted,         \* ids of the entries trimmed off the topic (tombstones when pending)
    \* ---- orderbook state ----
    orderbook,       \* the value at state:orderbook:{ticker}, or None
    ref_book,        \* the book the snapshot and the deltas describe, by integer price
    \* ---- websocket manager ----
    pc,              \* position of connect(): connecting, resubscribing, message_loop, sleeping
    connected,       \* _connected
    ws,              \* _ws is not None
    reconnect_delay, \* _reconnect_delay
    next_sid,        \* _next_sid
    subscriptions,   \* the sids in the subscriptions dict
    sub_info,        \* the SubscriptionInfo objects, by sid
    resub_queue,     \* the subscriptions _resubscribe_all still has to send
    sequence_numbers,\* sequence_numbers: sid -> last seq seen
    gap_log,         \* the sequence_gap_detected warning of the last message, or None
    outbox,          \* the commands the last step sent over the socket
    sleep_n,         \* sleeps since the last successful connect
    last_sleep,      \* duration of the last sleep
    ev,              \* the last update_subscription call
    \* ---- signal aggregator ----
    clock,           \* what time.time() returns, in seconds
    active_signals,  \* active_signals: market ticker -> list of signals
    last_composite_publish, \* last_composite_publish: market ticker -> time
    composite_stream,\* the entries of kalshi:signals:composite
    agg_ev,          \* what the last process_message call of the aggregator did
    \* ---- regime detector ----
    market_state,    \* market_state: ticker -> RegimeMarketState (previous_regime)
    last_regime_publish, \* last_regime_publish: ticker -> time
    reg_task,        \* per input stream: the suspended call of _maybe_emit_regime, or None
    redis_regime,    \* the regime at state:regime:{ticker}
    regime_out,      \* the regime_change signals returned so far
    classified,      \* the regimes classify() has returned so far
    regime_writes,   \* the writes of state:regime:{ticker}: ticker and time
    \* ---- flow toxicity classifier ----
    flow_state,      \* market_state: ticker -> MarketFlowState
    fed,             \* the number of trades received
    unit_trades,     \* every trade received so far had count 1
    closed_at,       \* the numbers of the trades that closed a bucket
    tox_ev,          \* what the last process_message call of the classifier did
    \* ---- cross-market propagation ----
    db_titles,       \* the (title, subtitle) of the markets of the event, by ticker
    market_prices,   \* market_prices: ticker -> last price
    price_move_timestamps, \* price_move_timestamps: ticker -> time of the last move
    event_ticker_cache,    \* _event_ticker_cache: ticker -> event, or None
    event_titles_cache,    \* _event_titles_cache: event -> titles
    threshold_cache, \* _threshold_cache: ticker -> parsed threshold, or None
    prop_ev,         \* what the last process_message call of the engine did
    \* ---- signal emission ----
    own_topic,       \* the signals on the processor's OUTPUT_STREAM
    all_topic,       \* the signals on kalshi:signals:all
    signal_count,    \* _signal_count
    emit_n,          \* the number of signals process_message has returned
    emit_ev,         \* what the last _handle_batch call did
    \* ---- one writer flush ----
    flush_ev,        \* the insert attempts and sleeps of the last handled batch
    \* ---- orderbook state of several markets ----
    books,           \* the keys state:orderbook:{ticker}: ticker -> stored book
    dropped,         \* the tickers a delta was dropped for
    book_ev,         \* the last apply_snapshot or apply_delta call
    \* ---- websocket ingest: routing of the received messages ----
    recv,            \* the number of frames received so far
    loop_alive,      \* _message_loop is running
    topics,          \* topic -> the numbers of the messages appended to it, in order
    ingest_ev,       \* what the last iteration of _message_loop did
    \* ---- markets table: lifecycle writer and market scanner ----
    markets_status,  \* markets.status by ticker, for the rows that exist
    life_ev,         \* what the last lifecycle batch or scan upsert did
    \* ---- backfiller ----
    bf_ev,           \* what the last backfill_trades call did
    \* ---- construction of signals ----
    signal_topic,    \* the signals published, with strength and confidence in tenths
    make_ev,         \* what the last message did: signals built, or the error
    \* ---- the consumer group of the signal processors ----
    topic_len,       \* per input topic, the number of entries added
    group_last,      \* per input topic, the last-delivered id of group signal_processors
    received,        \* per input topic and consumer, the ids handed to its handler
    \* ---- batches with entries that do not parse ----
    cyc_stream,      \* the topic: whether each entry parses and validates
    cyc_last,        \* the group's last-delivered id
    cyc_pel,         \* ids delivered and not acknowledged
    cyc_acked,       \* ids acknowledged
    cyc_ev,          \* what the last read cycle did
    \* ---- subscription manager ----
    orderbook_sid,   \* SubscriptionManager._orderbook_sid, NoSid for None
    active_ob_tickers, \* SubscriptionManager._active_ob_tickers
    mgr_ev,          \* the last call of the subscription manager
    \* ---- periodic orderbook snapshot task ----
    snap_task,       \* the book the task has read for the row it is building, or None
    snap_row,        \* the last row the task inserted, or None
    \* ---- regime classification ----
    cls_ev,          \* the last call of classify(): the features and the regime
    \* ---- lifecycle alpha scanner ----
    alpha_clock,     \* time.time(), in seconds
    recent_opens,    \* LifecycleAlphaScanner.recent_opens, Absent for a missing key
    alpha_opens,     \* every open event processed: market and time
    alpha_ev         \* the last message processed and the signals returned

busVars == <<stream, last_delivered, pel, handler, cphase, table, last, deleted>>
bookVars == <<orderbook, ref_book>>
wsVars == <<pc, connected, ws, reconnect_delay, next_sid, subscriptions, sub_info,
            resub_queue, sequence_numbers, gap_log, outbox, sleep_n, last_sleep, ev>>
aggVars == <<clock, active_signals, last_composite_publish, composite_stream, agg_ev>>
regVars == <<market_state, last_regime_publish, reg_task, redis_regime, regime_out, classified,
            regime_writes>>
toxVars == <<flow_state, fed, unit_trades, closed_at, tox_ev>>
propVars == <<db_titles, market_prices, price_move_timestamps, event_ticker_cache,
              event_titles_cache, threshold_cache, prop_ev>>
emitVars == <<own_topic, all_topic, signal_count, emit_n, emit_ev>>
sigVars == <<aggVars, regVars, toxVars, propVars, emitVars>>
flushVars == <<flush_ev>>
\* the subsystems modelled after the signal processors
storeVars == <<books, dropped, book_ev>>
ingestVars == <<recv, loop_alive, topics, ingest_ev>>
lifeVars == <<markets_status, life_ev>>
bfVars == <<bf_ev>>
makeVars == <<signal_topic, make_ev>>
grpVars == <<topic_len, group_last, received>>
cycVars == <<cyc_stream, cyc_last, cyc_pel, cyc_acked, cyc_ev>>
mgrVars == <<orderbook_sid, active_ob_tickers, mgr_ev>>
snapVars == <<snap_task, snap_row>>
clsVars == <<cls_ev>>
alphaVars == <<alpha_clock, recent_opens, alpha_opens, alpha_ev>>
lateVars == <<grpVars, cycVars, mgrVars, snapVars, clsVars, alphaVars>>
restVars == <<flushVars, storeVars, ingestVars, lifeVars, bfVars, makeVars, lateVars>>
earlyVars == <<busVars, bookVars, wsVars, sigVars, flushVars, storeVars, ingestVars, lifeVars,
               bfVars, makeVars>>
vars == <<busVars, bookVars, wsVars, sigVars, restVars>>

None == [none |-> TRUE]

\* ------------------------------------------------------------------ bounds
MaxStream == 2
BatchSize == 1
MaxRows == 3
MaxQty == 2
MaxLevels == 1
MaxSubs == 2
MaxTickers == 2
MaxSeq == 3
MaxStreak == 7
MaxClock == 15
MaxActive == 2
MaxTrades == 50
MaxBig == 3
MaxEmitted == 5
MaxBatchSignals == 2
MaxFlushRows == 2
MaxRecv == 4
MaxLifeBatch == 2
MaxPages == 2
MaxPageLen == 2
MaxRuns == 3
MaxBuilt == 2
MaxPublished == 2
MaxTopicLen == 3
MaxHeld == 21
MaxCycleLen == 4
CycleBatch == 2
MaxMgrTickers == 3
MaxAlphaClock == 600
MaxOpens == 2
NEW_MARKET_WINDOW == 300

\* ------------------------------------------------------- program constants
MAX_RETRIES == 3
ws_reconnect_max_delay == 60
\* AGGREGATOR_CONFIG: the score threshold 0.4 in units of 1/10000, seconds, a count
min_composite_score == 4000
publish_cooldown == 10
\* REGIME_CONFIG, seconds
publish_interval == 30
\* FLOW_TOXICITY_CONFIG: the thresholds 0.80 and 0.70 in units of 1/1000000
vpin_threshold == 800000
rolling_vpin_threshold == 700000
bucket_size == 25
window_size == 20
burst_min_trades == 8
size_multiplier == 3
min_market_volume == 200
min_price_move == 3
propagation_window == 30
max_active_signals_per_market == 20

Min(a, b) == IF a < b THEN a ELSE b
Max(a, b) == IF a > b THEN a ELSE b
SeqToSet(s) == {s[i] : i \in 1..Len(s)}

\* ======================================================================
\* Message bus and writers
\* ======================================================================

\* natural keys of the payloads (trade_id, signal_id, ...)
Keys == {"X1", "X2"}
\* a payload either parses and carries its key, or does not parse
Payloads == [key : Keys, valid : {TRUE}] \cup {[key |-> "", valid |-> FALSE]}

Writers == {"trade", "ticker", "ob_delta", "ob_snapshot", "lifecycle",
            "signal", "composite", "regime"}
\* "other" is any other callable given to consume(): it may raise
Handlers == Writers \cup {"other"}

OnConflictOnlySignal(kind) == kind = "signal"

\* The INSERT statement of the writer carries ON CONFLICT DO NOTHING
OnConflictDoNothing(kind) == kind \in {"trade", "signal"}

\* The target table has a primary key (persisted schema: trades.trade_id,
\* signal_log.signal_id); the other tables have none
HasPrimaryKey(kind) == kind \in {"trade", "signal"}

\* The writer inserts each message in its own transaction, without retry
PerMessage(kind) == kind = "ob_snapshot"

KeyPresent(tbl, k) == \E r \in BagToSet(tbl) : r.key = k

\* One INSERT statement: [ok, table]
insert_row(kind, tbl, row) ==
    IF HasPrimaryKey(kind) /\ KeyPresent(tbl, row.key)
    THEN IF OnConflictDoNothing(kind)
         THEN [ok |-> TRUE, table |-> tbl]
         ELSE [ok |-> FALSE, table |-> tbl]
    ELSE [ok |-> TRUE, table |-> tbl (+) SetToBag({row})]

\* The statements of one transaction, in order; an error aborts it
RECURSIVE insert_rows(_, _, _)
insert_rows(kind, tbl, rows) ==
    IF rows = <<>> THEN [ok |-> TRUE, table |-> tbl]
    ELSE LET r == insert_row(kind, tbl, Head(rows))
         IN IF r.ok THEN insert_rows(kind, r.table, Tail(rows))
            ELSE [ok |-> FALSE, table |-> tbl]

\* The retry loop of _flush_batch: db[i] says whether the database is
\* available on attempt i.  Returns [flush, table, attempts, sleeps]: sleeps
\* are the asyncio.sleep(2 ** retries) calls, in seconds.
RECURSIVE flush_batch(_, _, _, _, _)
flush_batch(kind, tbl, rows, db, retries) ==
    IF retries >= MAX_RETRIES
    THEN [flush |-> "failed", table |-> tbl, attempts |-> retries, sleeps |-> <<>>]
    ELSE LET t == insert_rows(kind, tbl, rows)
         IN IF db[retries + 1] /\ t.ok
            THEN [flush |-> "ok", table |-> t.table, attempts |-> retries + 1, sleeps |-> <<>>]
            ELSE LET rest == flush_batch(kind, tbl, rows, db, retries + 1)
                 IN [rest EXCEPT !.sleeps = <<2 ^ (retries + 1)>> \o @]

RECURSIVE ParseUntilBad(_)
ParseUntilBad(msgs) ==
    IF msgs = <<>> \/ ~Head(msgs).valid THEN <<>>
    ELSE <<[key |-> Head(msgs).key, src |-> Head(msgs).id]>> \o ParseUntilBad(Tail(msgs))

\* The rows a handler parses out of a batch: unparsable messages are skipped.
\* src is the bus entry the row was made from.
RECURSIVE ParseRows(_)
ParseRows(msgs) ==
    IF msgs = <<>> THEN <<>>
    ELSE IF Head(msgs).valid
         THEN <<[key |-> Head(msgs).key, src |-> Head(msgs).id]>> \o ParseRows(Tail(msgs))
         ELSE ParseRows(Tail(msgs))

\* OrderbookWriter._handle_snapshot_batch: one transaction per message, an
\* exception is logged and the next message is tried
RECURSIVE handle_snapshot_batch(_, _, _, _)
handle_snapshot_batch(tbl, rows, db, i) ==
    IF rows = <<>> THEN tbl
    ELSE LET t == insert_rows("ob_snapshot", tbl, <<Head(rows)>>)
         IN handle_snapshot_batch(IF db[i] /\ t.ok THEN t.table ELSE tbl, Tail(rows), db, i + 1)

RowKeys(rows) == {rows[i].key : i \in 1..Len(rows)}

\* A handler run on a batch: [outcome, flush, table, dbUp, keys].  dbUp and
\* keys record what the database was given: whether it was available on
\* some attempt, and the keys of the rows the batch inserts.
handle_batch(kind, msgs, tbl, db, raises) ==
    LET rows == ParseRows(msgs) IN
    IF kind = "other"
    THEN [outcome |-> IF raises THEN "raised" ELSE "returned",
          flush |-> "none", table |-> tbl, dbUp |-> FALSE, keys |-> {}]
    ELSE IF rows = <<>>
    THEN [outcome |-> "returned", flush |-> "none", table |-> tbl,
          dbUp |-> FALSE, keys |-> {}]
    ELSE IF PerMessage(kind)
    THEN [outcome |-> "returned", flush |-> "none",
          table |-> handle_snapshot_batch(tbl, rows, db, 1),
          dbUp |-> \A j \in 1..Len(rows) : db[j], keys |-> RowKeys(rows)]
    ELSE LET f == flush_batch(kind, tbl, rows, db, 0)
         IN [outcome |-> "returned", flush |-> f.flush, table |-> f.table,
             dbUp |-> \E i \in 1..MAX_RETRIES : db[i], keys |-> RowKeys(rows)]

XackAlways(outcome, ackOk) == ackOk

\* consume() and _process_pending(): the batch is acknowledged when the
\* handler returned and XACK itself went through
xack(outcome, ackOk) == outcome = "returned" /\ ackOk

\* the database's availability on each attempt (a writer), and whether the
\* callable raises (any other handler)
DbChoices == IF handler = "other" THEN {[i \in 1..Max(MAX_RETRIES, BatchSize) |-> TRUE]}
             ELSE [1..Max(MAX_RETRIES, BatchSize) -> BOOLEAN]
Raises == IF handler = "other" THEN BOOLEAN ELSE {FALSE}

\* again: the entries of the batch that were pending when a live read handed
\* them to the handler
NoBatch == [ids |-> {}, keys |-> {}, outcome |-> "none", flush |-> "none",
            dbUp |-> FALSE, acked |-> FALSE, again |-> {}]

\* ids of a set, ascending, at most n of them
RECURSIVE FirstIds(_, _)
FirstIds(S, n) ==
    IF S = {} \/ n = 0 THEN <<>>
    ELSE LET m == CHOOSE x \in S : \A y \in S : x <= y
         IN <<m>> \o FirstIds(S \ {m}, n - 1)

Entries(ids) == [i \in 1..Len(ids) |->
                    [id |-> ids[i], key |-> stream[ids[i]].key, valid |-> stream[ids[i]].valid]]

InitBus ==
    /\ stream = <<>>
    /\ last_delivered = 0
    /\ pel = {}
    /\ handler = "none"
    /\ cphase = "stopped"
    /\ table = EmptyBag
    /\ last = NoBatch
    /\ deleted = {}

\* RedisStreamPublisher.publish_*: XADD
publish(p) ==
    /\ Len(stream) < MaxStream
    /\ stream' = Append(stream, p)
    /\ UNCHANGED <<last_delivered, pel, handler, cphase, table, last, deleted, bookVars, wsVars, sigVars, restVars>>

\* consume() is entered (process start, or restart after a crash)
StartConsumer(kind) ==
    /\ cphase = "stopped"
    /\ handler \in {"none", kind}
    /\ handler' = kind
    /\ cphase' = "pending"
    /\ UNCHANGED <<stream, last_delivered, pel, table, last, deleted, bookVars, wsVars, sigVars, restVars>>

\* the consumer process dies
Crash ==
    /\ cphase \in {"pending", "live"}
    /\ cphase' = "stopped"
    /\ UNCHANGED <<stream, last_delivered, pel, handler, table, last, deleted, bookVars, wsVars, sigVars, restVars>>

\* XADD with MAXLEN: the oldest entry is trimmed off the topic.  Only
\* entries already delivered are trimmed here; one that is still pending
\* is read back with empty fields
trim ==
    /\ \E id \in 1..last_delivered :
          /\ id \notin deleted
          /\ \A j \in 1..(id - 1) : j \in deleted
          /\ deleted' = deleted \cup {id}
    /\ UNCHANGED <<stream, last_delivered, pel, handler, cphase, table, last,
                   bookVars, wsVars, sigVars, restVars>>

\* the entries of a pending batch that have fields
RECURSIVE WithFields(_)
WithFields(ids) ==
    IF ids = <<>> THEN <<>>
    ELSE IF Head(ids) \in deleted THEN WithFields(Tail(ids))
         ELSE <<Head(ids)>> \o WithFields(Tail(ids))

\* one iteration of _process_pending
process_pending(db, raises, ackOk) ==
    /\ cphase = "pending"
    /\ BagCardinality(table) < MaxRows
    /\ LET ids == FirstIds(pel, BatchSize)
           msg_ids == WithFields(ids)
       IN
       IF ids = <<>>
       THEN /\ cphase' = "live"
            /\ UNCHANGED <<pel, table, last>>
       ELSE IF msg_ids = <<>>
       THEN /\ cphase' = "live"
            /\ last' = [ids |-> {}, keys |-> {}, outcome |-> "skipped", flush |-> "none",
                        dbUp |-> FALSE, acked |-> FALSE, again |-> {}]
            /\ UNCHANGED <<pel, table>>
       ELSE LET r == handle_batch(handler, Entries(msg_ids), table, db, raises)
                ack == xack(r.outcome, ackOk)
            IN /\ table' = r.table
               /\ pel' = IF ack THEN pel \ SeqToSet(msg_ids) ELSE pel
               /\ cphase' = IF ack THEN "pending" ELSE "live"
               /\ last' = [ids |-> SeqToSet(msg_ids), keys |-> r.keys, outcome |-> r.outcome,
                           flush |-> r.flush, dbUp |-> r.dbUp, acked |-> ack, again |-> {}]
    /\ UNCHANGED <<stream, last_delivered, handler, deleted, bookVars, wsVars, sigVars, restVars>>

\* one iteration of the live loop of consume() that read a non-empty batch
consume(db, raises, ackOk) ==
    /\ cphase = "live"
    /\ last_delivered < Len(stream)
    /\ BagCardinality(table) < MaxRows
    /\ LET hi == Min(Len(stream), last_delivered + BatchSize)
           ids == [i \in 1..(hi - last_delivered) |-> last_delivered + i]
           r == handle_batch(handler, Entries(ids), table, db, raises)
           ack == xack(r.outcome, ackOk)
       IN /\ last_delivered' = hi
          /\ table' = r.table
          /\ pel' = IF ack THEN pel ELSE pel \cup SeqToSet(ids)
          /\ last' = [ids |-> SeqToSet(ids), keys |-> r.keys, outcome |-> r.outcome,
                      flush |-> r.flush, dbUp |-> r.dbUp, acked |-> ack,
                      again |-> SeqToSet(ids) \cap pel]
    /\ UNCHANGED <<stream, handler, cphase, deleted, bookVars, wsVars, sigVars, restVars>>

\* a fetched page of trades: a batch of at most BatchSize trade ids
Pages == UNION {[1..n -> Keys] : n \in 1..BatchSize}

\* Backfiller.backfill_trades: one fetched page inserted by _insert_trades
\* (one transaction, no retry)
backfill_trades(page, dbOk) ==
    /\ handler = "trade"
    /\ BagCardinality(table) < MaxRows
    /\ LET rows == [i \in 1..Len(page) |-> [key |-> page[i], src |-> 0]]
           t == insert_rows("trade", table, rows)
       IN /\ table' = IF dbOk /\ t.ok THEN t.table ELSE table
          /\ last' = [ids |-> {}, keys |-> RowKeys(rows), outcome |-> "returned",
                      flush |-> IF dbOk /\ t.ok THEN "ok" ELSE "failed",
                      dbUp |-> dbOk, acked |-> FALSE, again |-> {}]
    /\ UNCHANGED <<stream, last_delivered, pel, handler, cphase, deleted, bookVars, wsVars, sigVars, restVars>>

NextBus ==
    \/ \E p \in Payloads : publish(p)
    \/ \E k \in Handlers : StartConsumer(k)
    \/ Crash
    \/ \E db \in DbChoices, raises \in Raises, ackOk \in BOOLEAN : process_pending(db, raises, ackOk)
    \/ \E db \in DbChoices, raises \in Raises, ackOk \in BOOLEAN : consume(db, raises, ackOk)
    \/ \E page \in Pages, dbOk \in BOOLEAN : backfill_trades(page, dbOk)

NextReplay ==
    \/ \E p \in Payloads : publish(p)
    \/ StartConsumer("other")
    \/ Crash
    \/ trim
    \/ \E db \in DbChoices, raises \in Raises, ackOk \in BOOLEAN : process_pending(db, raises, ackOk)
    \/ \E db \in DbChoices, raises \in Raises, ackOk \in BOOLEAN : consume(db, raises, ackOk)

\* ======================================================================
\* Orderbook state (OrderbookStateManager), one market
\* ======================================================================

MARKET == "MKT-1"
Prices == {5, 36}
Sides == {"yes", "no"}
Qtys == 0..MaxQty

\* str() of a price 0..99
Digits == <<"0", "1", "2", "3", "4", "5", "6", "7", "8", "9">>
Str(p) == IF p < 10 THEN Digits[p + 1]
          ELSE Digits[(p \div 10) + 1] \o Digits[(p % 10) + 1]

\* dictionaries as functions
EmptyDict == [x \in {} |-> 0]
Put(d, k, v) == [x \in DOMAIN d \cup {k} |-> IF x = k THEN v ELSE d[x]]
Pop(d, k) == [x \in DOMAIN d \ {k} |-> d[x]]
Get(d, k, default) == IF k \in DOMAIN d THEN d[k] ELSE default

\* a [price, quantity] level list of a snapshot
Levels == Prices \X Qtys
LevelLists == UNION {[1..n -> Levels] : n \in 0..MaxLevels}
Snapshots == [market_ticker : {MARKET}, yes : LevelLists, no : LevelLists]
Deltas == [market_ticker : {MARKET}, price : Prices, delta : (0 - MaxQty)..MaxQty, side : Sides]

\* {str(level[0]): level[1] for level in levels}
RECURSIVE LevelDict(_, _)
LevelDict(levels, d) ==
    IF levels = <<>> THEN d
    ELSE LevelDict(Tail(levels), Put(d, Str(Head(levels)[1]), Head(levels)[2]))

\* the same list keyed by the integer price
RECURSIVE RefLevels(_, _)
RefLevels(levels, d) ==
    IF levels = <<>> THEN d
    ELSE RefLevels(Tail(levels), Put(d, Head(levels)[1], Head(levels)[2]))

\* a side of the book after a delta: the level is dropped when the new
\* quantity is not positive
SideAfterDelta(side, key, delta) ==
    LET new_qty == Get(side, key, 0) + delta
    IN IF new_qty <= 0 THEN Pop(side, key) ELSE Put(side, key, new_qty)

InitBook ==
    /\ orderbook = None
    /\ ref_book = None

apply_snapshot(snapshot) ==
    /\ orderbook' = [market_ticker |-> snapshot.market_ticker,
                     yes |-> LevelDict(snapshot.yes, EmptyDict),
                     no |-> LevelDict(snapshot.no, EmptyDict)]
    /\ ref_book' = [yes |-> RefLevels(snapshot.yes, EmptyDict),
                    no |-> RefLevels(snapshot.no, EmptyDict)]
    /\ UNCHANGED <<busVars, wsVars, sigVars, restVars>>

apply_delta(delta) ==
    /\ IF orderbook = None
       THEN UNCHANGED <<orderbook, ref_book>>
       ELSE /\ Get(orderbook[delta.side], Str(delta.price), 0) + delta.delta <= MaxQty
            /\ orderbook' = [orderbook EXCEPT ![delta.side] =
                                SideAfterDelta(@, Str(delta.price), delta.delta)]
            /\ ref_book' = [ref_book EXCEPT ![delta.side] =
                                SideAfterDelta(@, delta.price, delta.delta)]
    /\ UNCHANGED <<busVars, wsVars, sigVars, restVars>>

NextBook ==
    \/ \E snapshot \in Snapshots : apply_snapshot(snapshot)
    \/ \E delta \in Deltas : apply_delta(delta)

\* ======================================================================
\* WebSocket manager (KalshiWSManager)
\* ======================================================================

Tickers == {"T1", "T2"}
\* an optional ticker list: None, or Some(list)
Some(list) == [list |-> list]
\* bool(market_tickers): None and the empty list are falsy
Truthy(opt) == opt # None /\ opt.list # <<>>

\* what callers pass to subscribe(): channels with no ticker list, or the
\* orderbook channel with the tickers of the active markets
BroadcastSubs == [channels : {<<"trade">>}, market_tickers : {None}]
OrderbookSubs == [channels : {<<"orderbook_delta">>},
                  market_tickers : {Some(<<t>>) : t \in Tickers}]
\* what callers pass as add_tickers / remove_tickers
TickerArgs == {None} \cup {Some(<<t>>) : t \in Tickers}

\* a field a message does not carry
Absent == 0 - 1
MsgSids == {1, 2}
\* server messages {type, sid?, seq?}; a command response has no type
TypedMsgs == [type : {"trade"}, sid : MsgSids, seq : 1..MaxSeq]
PlainMsgs == [type : {"subscribed", ""}, sid : {Absent}, seq : {Absent}]

NoEvent == [op |-> "none"]

\* ids of a set in ascending order: the dict's insertion order
RECURSIVE Ascending(_)
Ascending(S) ==
    IF S = {} THEN <<>>
    ELSE LET m == CHOOSE x \in S : \A y \in S : x <= y
         IN <<m>> \o Ascending(S \ {m})

\* [t for t in tickers if t not in remove]
RECURSIVE Without(_, _)
Without(tickers, remove) ==
    IF tickers = <<>> THEN <<>>
    ELSE IF Head(tickers) \in SeqToSet(remove)
         THEN Without(Tail(tickers), remove)
         ELSE <<Head(tickers)>> \o Without(Tail(tickers), remove)

\* the command _send_subscribe builds
send_subscribe(id, channels, market_tickers) ==
    [id |-> id, cmd |-> "subscribe", channels |-> channels,
     market_tickers |-> IF Truthy(market_tickers) THEN market_tickers ELSE None]

update_cmd(sid, action, tickers) ==
    [id |-> sid, cmd |-> "update_subscription", sids |-> <<sid>>,
     market_tickers |-> tickers, action |-> action]

NextDelayUncapped(delay) == delay * 2

\* min(self._reconnect_delay * 2, ws_reconnect_max_delay)
NextDelay(delay) == Min(delay * 2, ws_reconnect_max_delay)

DetectAnyJump(seqs, sid, seq) == sid \in DOMAIN seqs /\ seq # seqs[sid] + 1

detect_sequence_gap(seqs, sid, seq) ==
    IF sid \notin DOMAIN seqs THEN FALSE ELSE seq > seqs[sid] + 1

RecordIfGreater(seqs, sid, seq) ==
    IF sid \in DOMAIN seqs /\ seq <= seqs[sid] THEN seqs ELSE Put(seqs, sid, seq)

\* self.sequence_numbers[sid] = seq
record_seq(seqs, sid, seq) == Put(seqs, sid, seq)

InitWS ==
    /\ pc = "connecting"
    /\ connected = FALSE
    /\ ws = FALSE
    /\ reconnect_delay = 1
    /\ next_sid = 1
    /\ subscriptions = {}
    /\ sub_info = EmptyDict
    /\ resub_queue = <<>>
    /\ sequence_numbers = EmptyDict
    /\ gap_log = None
    /\ outbox = <<>>
    /\ sleep_n = 0
    /\ last_sleep = 0
    /\ ev = NoEvent

\* connect(): the handshake succeeded; _resubscribe_all takes its copy of
\* the table
connect_ok ==
    /\ pc = "connecting"
    /\ connected' = TRUE
    /\ ws' = TRUE
    /\ reconnect_delay' = 1
    /\ sleep_n' = 0
    /\ last_sleep' = 0
    /\ resub_queue' = Ascending(subscriptions)
    /\ pc' = IF subscriptions = {} THEN "message_loop" ELSE "resubscribing"
    /\ gap_log' = None
    /\ outbox' = <<>>
    /\ ev' = NoEvent
    /\ UNCHANGED <<next_sid, subscriptions, sub_info, sequence_numbers>>
    /\ UNCHANGED <<busVars, bookVars, sigVars, restVars>>

\* connect(): the handshake failed
connect_failed ==
    /\ pc = "connecting"
    /\ sleep_n < MaxStreak
    /\ connected' = FALSE
    /\ ws' = FALSE
    /\ pc' = "sleeping"
    /\ gap_log' = None
    /\ outbox' = <<>>
    /\ ev' = NoEvent
    /\ UNCHANGED <<reconnect_delay, sleep_n, last_sleep, resub_queue, next_sid,
                   subscriptions, sub_info, sequence_numbers>>
    /\ UNCHANGED <<busVars, bookVars, sigVars, restVars>>

\* connect(): the message loop ended (connection closed)
connection_closed ==
    /\ pc = "message_loop"
    /\ connected' = FALSE
    /\ ws' = FALSE
    /\ pc' = "sleeping"
    /\ gap_log' = None
    /\ outbox' = <<>>
    /\ ev' = NoEvent
    /\ UNCHANGED <<reconnect_delay, sleep_n, last_sleep, resub_queue, next_sid,
                   subscriptions, sub_info, sequence_numbers>>
    /\ UNCHANGED <<busVars, bookVars, sigVars, restVars>>

\* connect(): the backoff sleep and the doubling of the delay
backoff ==
    /\ pc = "sleeping"
    /\ last_sleep' = reconnect_delay
    /\ sleep_n' = sleep_n + 1
    /\ reconnect_delay' = NextDelay(reconnect_delay)
    /\ pc' = "connecting"
    /\ gap_log' = None
    /\ outbox' = <<>>
    /\ ev' = NoEvent
    /\ UNCHANGED <<connected, ws, resub_queue, next_sid, subscriptions, sub_info,
                   sequence_numbers>>
    /\ UNCHANGED <<busVars, bookVars, sigVars, restVars>>

\* one iteration of the loop of _resubscribe_all; a failed send is logged
resubscribe_all(sendOk) ==
    /\ pc = "resubscribing"
    /\ LET sub == sub_info[Head(resub_queue)]
       IN outbox' = IF ws /\ sendOk
                    THEN <<send_subscribe(next_sid, sub.channels, sub.market_tickers)>>
                    ELSE <<>>
    /\ resub_queue' = Tail(resub_queue)
    /\ pc' = IF Tail(resub_queue) = <<>> THEN "message_loop" ELSE "resubscribing"
    /\ gap_log' = None
    /\ ev' = NoEvent
    /\ UNCHANGED <<connected, ws, reconnect_delay, sleep_n, last_sleep, next_sid,
                   subscriptions, sub_info, sequence_numbers>>
    /\ UNCHANGED <<busVars, bookVars, sigVars, restVars>>

\* subscribe(channels, market_tickers)
subscribe(channels, market_tickers, sendOk) ==
    /\ next_sid <= MaxSubs
    /\ next_sid' = next_sid + 1
    /\ subscriptions' = subscriptions \cup {next_sid}
    /\ sub_info' = Put(sub_info, next_sid,
                       [sid |-> next_sid, channels |-> channels,
                        market_tickers |-> market_tickers])
    /\ outbox' = IF connected /\ ws /\ sendOk
                 THEN <<send_subscribe(next_sid + 1, channels, market_tickers)>>
                 ELSE <<>>
    /\ gap_log' = None
    /\ ev' = NoEvent
    /\ UNCHANGED <<pc, connected, ws, reconnect_delay, sleep_n, last_sleep,
                   resub_queue, sequence_numbers>>
    /\ UNCHANGED <<busVars, bookVars, sigVars, restVars>>

\* update_subscription(sid, add_tickers, remove_tickers); sendAdd and
\* sendRemove say whether the send of each command goes through (a send
\* that fails raises out of the call)
update_subscription(sid, add_tickers, remove_tickers, sendAdd, sendRemove) ==
    LET known == sid \in subscriptions
        prev == IF known THEN sub_info[sid].market_tickers ELSE None
        doAdd == known /\ ws /\ Truthy(add_tickers)
        addRaised == doAdd /\ ~sendAdd
        afterAdd == IF doAdd /\ sendAdd /\ prev # None
                    THEN Some(prev.list \o add_tickers.list) ELSE prev
        doRemove == known /\ ws /\ ~addRaised /\ Truthy(remove_tickers)
        removeRaised == doRemove /\ ~sendRemove
        afterRemove == IF doRemove /\ sendRemove /\ afterAdd # None
                       THEN Some(Without(afterAdd.list, remove_tickers.list))
                       ELSE afterAdd
    IN /\ afterRemove # None => Len(afterRemove.list) <= MaxTickers
       /\ sub_info' = IF known THEN [sub_info EXCEPT ![sid].market_tickers = afterRemove]
                      ELSE sub_info
       /\ outbox' = (IF doAdd /\ sendAdd
                     THEN <<update_cmd(sid, "add_markets", add_tickers)>> ELSE <<>>)
                    \o (IF doRemove /\ sendRemove
                        THEN <<update_cmd(sid, "remove_markets", remove_tickers)>> ELSE <<>>)
       /\ ev' = [op |-> "update_subscription", sid |-> sid, known |-> known,
                 add |-> add_tickers, remove |-> remove_tickers, previous |-> prev,
                 returned |-> ~addRaised /\ ~removeRaised]
       /\ gap_log' = None
       /\ UNCHANGED <<pc, connected, ws, reconnect_delay, sleep_n, last_sleep, next_sid,
                      subscriptions, resub_queue, sequence_numbers>>
       /\ UNCHANGED <<busVars, bookVars, sigVars, restVars>>

PopWhenConnected(seqs, sids) ==
    IF ws THEN [s \in DOMAIN seqs \ sids |-> seqs[s]] ELSE seqs

\* for sid in sids: self.sequence_numbers.pop(sid, None)
pop_sids(seqs, sids) == [s \in DOMAIN seqs \ sids |-> seqs[s]]

\* unsubscribe(sids): a send that fails raises before anything is removed
unsubscribe(sids, sendOk) ==
    /\ IF ws /\ ~sendOk
       THEN UNCHANGED <<subscriptions, sequence_numbers>> /\ outbox' = <<>>
       ELSE /\ outbox' = IF ws THEN <<[id |-> next_sid, cmd |-> "unsubscribe",
                                       sids |-> sids]>>
                         ELSE <<>>
            /\ subscriptions' = subscriptions \ sids
            /\ sequence_numbers' = pop_sids(sequence_numbers, sids)
    /\ gap_log' = None
    /\ ev' = [op |-> "unsubscribe", sids |-> sids, returned |-> ~(ws /\ ~sendOk),
              open |-> ws, subs |-> subscriptions, seqs |-> sequence_numbers]
    /\ UNCHANGED <<pc, connected, ws, reconnect_delay, sleep_n, last_sleep, next_sid,
                   sub_info, resub_queue>>
    /\ UNCHANGED <<busVars, bookVars, sigVars, restVars>>

\* one iteration of _message_loop on a received message
message_loop(msg) ==
    /\ pc = "message_loop"
    /\ IF msg.type # "" /\ msg.sid # Absent /\ msg.seq # Absent
       THEN /\ gap_log' = IF detect_sequence_gap(sequence_numbers, msg.sid, msg.seq)
                          THEN [sid |-> msg.sid,
                                expected |-> Get(sequence_numbers, msg.sid, 0) + 1,
                                received |-> msg.seq]
                          ELSE None
            /\ sequence_numbers' = record_seq(sequence_numbers, msg.sid, msg.seq)
       ELSE /\ gap_log' = None
            /\ UNCHANGED sequence_numbers
    /\ outbox' = <<>>
    /\ ev' = NoEvent
    /\ UNCHANGED <<pc, connected, ws, reconnect_delay, sleep_n, last_sleep, next_sid,
                   subscriptions, sub_info, resub_queue>>
    /\ UNCHANGED <<busVars, bookVars, sigVars, restVars>>

\* the manager driven by callers that pass subs to subscribe() and args as
\* add_tickers / remove_tickers, and a server that sends msgs
NextWS(subs, args, msgs) ==
    \/ connect_ok
    \/ connect_failed
    \/ connection_closed
    \/ backoff
    \/ \E sendOk \in BOOLEAN : resubscribe_all(sendOk)
    \/ \E s \in subs, sendOk \in BOOLEAN : subscribe(s.channels, s.market_tickers, sendOk)
    \/ \E sid \in 1..MaxSubs, add \in args, remove \in args,
          sendAdd \in BOOLEAN, sendRemove \in BOOLEAN :
            update_subscription(sid, add, remove, sendAdd, sendRemove)
    \/ \E sids \in SUBSET (1..MaxSubs) \ {{}}, sendOk \in BOOLEAN : unsubscribe(sids, sendOk)
    \/ \E msg \in msgs : message_loop(msg)

\* ======================================================================
\* Signal aggregator (SignalAggregator)
\* ======================================================================
\* Strengths and unrounded scores are counted in units of 1/100000,
\* confidences and regime modifiers in tenths, base weights in hundredths,
\* stored composite scores in units of 1/10000 (four decimals).

AggTickers == {"M1", "M2"}
Directions == {"buy_yes", "buy_no", "neutral"}
MarketRegimes == {"dead", "quiet", "active", "informed", "pre_settle", "unknown"}

SIGNAL_WEIGHTS ==
    [flow_toxicity |-> 35, flow_burst |-> 8, flow_large_trade |-> 5,
     oi_divergence |-> 30, cross_market_propagation |-> 15,
     signal_propagation |-> 10, settlement_cascade |-> 15,
     new_market_open |-> 2, new_market_extreme_price |-> 5, regime_change |-> 5]

REGIME_MODIFIERS ==
    [dead |-> [flow_toxicity |-> 5, oi_divergence |-> 7, cross_market_propagation |-> 12],
     quiet |-> [flow_toxicity |-> 8, oi_divergence |-> 9, cross_market_propagation |-> 11],
     active |-> [flow_toxicity |-> 10, oi_divergence |-> 10, cross_market_propagation |-> 10],
     informed |-> [flow_toxicity |-> 15, oi_divergence |-> 13, cross_market_propagation |-> 8],
     pre_settle |-> [flow_toxicity |-> 8, oi_divergence |-> 5, cross_market_propagation |-> 10]]

\* the signals the processors send: type, direction, strength, confidence, ttl
TimingKinds ==
    {[signal_type |-> "flow_toxicity", direction |-> "buy_yes", strength |-> 80000,
      confidence |-> 7, ttl_seconds |-> 5],
     [signal_type |-> "flow_toxicity", direction |-> "buy_yes", strength |-> 10004,
      confidence |-> 10, ttl_seconds |-> 5]}
CapKinds ==
    {[signal_type |-> "flow_toxicity", direction |-> "buy_yes", strength |-> 80000,
      confidence |-> 1, ttl_seconds |-> 5]}
SignalKinds ==
    TimingKinds \cup
    {[signal_type |-> "oi_divergence", direction |-> "buy_no", strength |-> 90000,
      confidence |-> 8, ttl_seconds |-> 5],
     [signal_type |-> "oi_divergence", direction |-> "neutral", strength |-> 50000,
      confidence |-> 5, ttl_seconds |-> 5],
     [signal_type |-> "regime_change", direction |-> "buy_no", strength |-> 100000,
      confidence |-> 0, ttl_seconds |-> 5],
     [signal_type |-> "volume_spike", direction |-> "buy_no", strength |-> 39996,
      confidence |-> 10, ttl_seconds |-> 5]}

\* how old a signal is when the aggregator receives it
Ages == {0, 10}
\* time.time() at start
Epoch == 10 * 10

\* a message of kalshi:signals:all at time now: a signal, or something
\* Signal.model_validate rejects
Unparsable == [unparsable |-> TRUE]
MakeSignal(kind, ticker, ts) ==
    [signal_type |-> kind.signal_type, market_ticker |-> ticker,
     direction |-> kind.direction, strength |-> kind.strength,
     confidence |-> kind.confidence, ts |-> ts, ttl_seconds |-> kind.ttl_seconds]
AggMessages(kinds, tickers, now) ==
    {MakeSignal(kind, ticker, now - age) :
        kind \in kinds, ticker \in tickers, age \in Ages} \cup {Unparsable}

\* the value at state:regime:{ticker}: missing, or a JSON object
RegimeRaws == {None} \cup {[regime |-> r] : r \in {"active", "informed"}}

ExpiredLate(s, now) == now - s.ts > s.ttl_seconds + 5

\* Signal.is_expired at time now
is_expired(s, now) == now - s.ts > s.ttl_seconds

RECURSIVE SelectSeqLive(_, _)
SelectSeqLive(list, now) ==
    IF list = <<>> THEN <<>>
    ELSE IF is_expired(Head(list), now) THEN SelectSeqLive(Tail(list), now)
         ELSE <<Head(list)>> \o SelectSeqLive(Tail(list), now)

\* list[-n:]
LastN(list, n) == IF Len(list) > n THEN SubSeq(list, Len(list) - n + 1, Len(list)) ELSE list

_get_regime(raw) ==
    IF raw = None THEN "unknown"
    ELSE IF raw.regime \in MarketRegimes THEN raw.regime ELSE "unknown"

regime_mods(regime) ==
    IF regime \in DOMAIN REGIME_MODIFIERS THEN REGIME_MODIFIERS[regime] ELSE EmptyDict

direction_mult(d) == CASE d = "buy_yes" -> 1 [] d = "buy_no" -> 0 - 1 [] d = "neutral" -> 0

WeightNoConfidence(signal, mods) ==
    Get(SIGNAL_WEIGHTS, signal.signal_type, 10) * Get(mods, signal.signal_type, 10)

weight(signal, mods) ==
    Get(SIGNAL_WEIGHTS, signal.signal_type, 10) * Get(mods, signal.signal_type, 10)
        * signal.confidence

\* the loop of _compute_composite: <<weighted_sum, total_weight>>
RECURSIVE Accumulate(_, _, _)
Accumulate(active, mods, acc) ==
    IF active = <<>> THEN acc
    ELSE Accumulate(Tail(active), mods,
            <<acc[1] + Head(active).strength * direction_mult(Head(active).direction)
                          * weight(Head(active), mods),
              acc[2] + weight(Head(active), mods)>>)

\* round(n / d) to an integer, ties to even, d > 0
RoundHalfEven(n, d) ==
    LET q == n \div d
        r == n % d
    IN IF 2 * r < d THEN q
       ELSE IF 2 * r > d THEN q + 1
       ELSE IF q % 2 = 0 THEN q ELSE q + 1

\* max(-1.0, min(1.0, weighted_sum / total_weight)) as a numerator over total_weight
Clamp(weighted_sum, total_weight) ==
    Max(0 - 100000 * total_weight, Min(100000 * total_weight, weighted_sum))

DirectionBySign(num, den) ==
    IF num > 0 THEN "buy_yes" ELSE IF num < 0 THEN "buy_no" ELSE "neutral"

DirectionOf(num, den) ==
    IF num > 10000 * den THEN "buy_yes"
    ELSE IF num < 0 - 10000 * den THEN "buy_no"
    ELSE "neutral"

_compute_composite(ticker, active, raw, now) ==
    IF active = <<>> THEN None
    ELSE LET regime == _get_regime(raw)
             acc == Accumulate(active, regime_mods(regime), <<0, 0>>)
             total_weight == acc[2]
             num == Clamp(acc[1], total_weight)
         IN IF total_weight = 0 THEN None
            ELSE [market_ticker |-> ticker,
                  direction |-> DirectionOf(num, total_weight),
                  composite_score |-> RoundHalfEven(num, 10 * total_weight),
                  active_signals |-> active,
                  regime |-> regime,
                  ts |-> now]

Abs(x) == IF x < 0 THEN 0 - x ELSE x

ShouldPublishAny(composite) == composite # None

ShouldPublish(composite) ==
    composite # None /\ Abs(composite.composite_score) >= min_composite_score

InCooldownShort(now, last_pub) == now - last_pub < 5

InCooldown(now, last_pub) == now - last_pub < publish_cooldown

\* to_redis_payload(): the stream entry of a composite, kept without the
\* list of signals and the regime
to_redis_payload(composite) ==
    [market_ticker |-> composite.market_ticker, direction |-> composite.direction,
     composite_score |-> composite.composite_score, ts |-> composite.ts]

RECURSIVE SumLen(_, _)
SumLen(d, keys) ==
    IF keys = {} THEN 0
    ELSE LET k == CHOOSE x \in keys : TRUE IN Len(d[k]) + SumLen(d, keys \ {k})
\* the signals held for all markets
TotalActive == SumLen(active_signals, DOMAIN active_signals)

notAgg == <<busVars, bookVars, wsVars, regVars, toxVars, propVars, emitVars, restVars>>

InitAgg ==
    /\ clock = Epoch
    /\ active_signals = EmptyDict
    /\ last_composite_publish = EmptyDict
    /\ composite_stream = <<>>
    /\ agg_ev = [kind |-> "start"]

\* time passes
Tick(d, horizon) ==
    /\ clock + d <= Epoch + horizon
    /\ clock' = clock + d
    /\ UNCHANGED <<active_signals, last_composite_publish, composite_stream, agg_ev>>
    /\ UNCHANGED notAgg

\* room: the signals the model lets the markets hold together
agg_process_message(message, raw, pubOk, room) ==
    LET now == clock IN
    IF message = Unparsable
    THEN /\ agg_ev' = [kind |-> "parse_skip"]
         /\ UNCHANGED <<clock, active_signals, last_composite_publish, composite_stream>>
         /\ UNCHANGED notAgg
    ELSE
    LET ticker == message.market_ticker
        appended == Append(Get(active_signals, ticker, <<>>), message)
        capped == LastN(appended, max_active_signals_per_market)
        active == SelectSeqLive(capped, now)
        last_pub == Get(last_composite_publish, ticker, 0)
        composite == _compute_composite(ticker, active, raw, now)
    IN /\ TotalActive < room
       /\ active_signals' = Put(active_signals, ticker, active)
       /\ IF InCooldown(now, last_pub)
          THEN /\ agg_ev' = [kind |-> "cooldown", ticker |-> ticker,
                             signal |-> message, composite |-> None]
               /\ UNCHANGED <<last_composite_publish, composite_stream>>
          ELSE IF ~ShouldPublish(composite)
          THEN /\ agg_ev' = [kind |-> "not_published", ticker |-> ticker,
                             signal |-> message, composite |-> composite]
               /\ UNCHANGED <<last_composite_publish, composite_stream>>
          ELSE IF pubOk
          THEN /\ composite_stream' = Append(composite_stream, to_redis_payload(composite))
               /\ last_composite_publish' = Put(last_composite_publish, ticker, now)
               /\ agg_ev' = [kind |-> "published", ticker |-> ticker,
                             signal |-> message, composite |-> composite]
          ELSE /\ agg_ev' = [kind |-> "publish_failed", ticker |-> ticker,
                             signal |-> message, composite |-> composite]
               /\ UNCHANGED <<last_composite_publish, composite_stream>>
       /\ UNCHANGED clock
       /\ UNCHANGED notAgg

\* one round of _cleanup_loop
_cleanup_loop ==
    /\ active_signals' =
          [t \in {u \in DOMAIN active_signals : SelectSeqLive(active_signals[u], clock) # <<>>}
              |-> SelectSeqLive(active_signals[t], clock)]
    /\ UNCHANGED <<clock, last_composite_publish, composite_stream, agg_ev>>
    /\ UNCHANGED notAgg

\* steps: the seconds that pass between two calls
NextAgg(kinds, tickers, raws, steps, room) ==
    \/ \E d \in steps : Tick(d, MaxClock)
    \/ \E message \in AggMessages(kinds, tickers, clock), raw \in raws, pubOk \in BOOLEAN :
          agg_process_message(message, raw, pubOk, room)
    \/ _cleanup_loop

\* ======================================================================
\* Regime detector (RegimeDetector)
\* ======================================================================
\* One consumer task per input stream; a call of _maybe_emit_regime is
\* suspended once, while the regime key is written.

REGIME_INPUT_STREAMS == {"kalshi:orderbook:deltas", "kalshi:trades", "kalshi:ticker_v2"}
RegimeTickers == {"M1"}

\* what classify() reads from the market state after the message has been
\* applied: last_price in cents, trade_rate in tenths per minute,
\* message_rate and |depth_imbalance| in hundredths
Features ==
    {[last_price |-> 50, trade_rate |-> 0, message_rate |-> 0, depth_imbalance |-> 0],
     [last_price |-> 50, trade_rate |-> 60, message_rate |-> 100, depth_imbalance |-> 80],
     [last_price |-> 97, trade_rate |-> 30, message_rate |-> 100, depth_imbalance |-> 0]}

ClassifyActiveFirst(f) ==
    IF /\ f.last_price # Absent
       /\ (f.last_price <= 5 \/ f.last_price >= 100 - 5)
       /\ f.trade_rate > 20
    THEN "pre_settle"
    ELSE IF f.trade_rate < 2 /\ f.message_rate < 10 THEN "dead"
    ELSE IF f.trade_rate > 20 /\ f.message_rate > 50 THEN "active"
    ELSE IF Abs(f.depth_imbalance) > 60 /\ f.trade_rate > 50 THEN "informed"
    ELSE "quiet"

classify(f) ==
    IF /\ f.last_price # Absent
       /\ (f.last_price <= 5 \/ f.last_price >= 100 - 5)
       /\ f.trade_rate > 20
    THEN "pre_settle"
    ELSE IF f.trade_rate < 2 /\ f.message_rate < 10 THEN "dead"
    ELSE IF Abs(f.depth_imbalance) > 60 /\ f.trade_rate > 50 THEN "informed"
    ELSE IF f.trade_rate > 20 /\ f.message_rate > 50 THEN "active"
    ELSE "quiet"

RegimeAlwaysChanged(regime, previous_regime) == TRUE

\* regime != state.previous_regime
RegimeChanged(regime, previous_regime) == regime # previous_regime

_create_regime_signal(ticker, regime, old_regime, now) ==
    [signal_type |-> "regime_change", market_ticker |-> ticker, direction |-> "neutral",
     new_regime |-> regime, old_regime |-> old_regime, ts |-> now]

InitReg ==
    /\ market_state = EmptyDict
    /\ last_regime_publish = EmptyDict
    /\ reg_task = [s \in REGIME_INPUT_STREAMS |-> None]
    /\ redis_regime = EmptyDict
    /\ regime_out = <<>>
    /\ classified = {}
    /\ regime_writes = <<>>

\* process_message up to the await in _maybe_emit_regime
reg_process_message(in_stream, ticker, f) ==
    LET now == clock
        last_pub == Get(last_regime_publish, ticker, 0)
        regime == classify(f)
    IN /\ reg_task[in_stream] = None
       /\ market_state' = IF ticker \in DOMAIN market_state THEN market_state
                          ELSE Put(market_state, ticker, [previous_regime |-> "unknown"])
       /\ IF now - last_pub < publish_interval
          THEN UNCHANGED <<reg_task, classified>>
          ELSE /\ reg_task' = [reg_task EXCEPT ![in_stream] =
                                  [ticker |-> ticker, regime |-> regime, now |-> now]]
               /\ classified' = classified \cup {regime}
       /\ UNCHANGED <<last_regime_publish, redis_regime, regime_out, regime_writes>>
       /\ UNCHANGED <<busVars, bookVars, wsVars, aggVars, toxVars, propVars, emitVars, restVars>>

\* _maybe_emit_regime from the await on; the write of the regime key may raise
reg_resume(in_stream, redisOk) ==
    /\ reg_task[in_stream] # None
    /\ LET ticker == reg_task[in_stream].ticker
           regime == reg_task[in_stream].regime
           state == market_state[ticker]
       IN IF ~redisOk
          THEN UNCHANGED <<market_state, last_regime_publish, redis_regime, regime_out,
                           regime_writes>>
          ELSE /\ redis_regime' = Put(redis_regime, ticker, regime)
               /\ regime_writes' = Append(regime_writes, [ticker |-> ticker, ts |-> clock])
               /\ last_regime_publish' = Put(last_regime_publish, ticker, reg_task[in_stream].now)
               /\ IF RegimeChanged(regime, state.previous_regime)
                  THEN /\ market_state' = Put(market_state, ticker, [previous_regime |-> regime])
                       /\ regime_out' = Append(regime_out,
                              _create_regime_signal(ticker, regime, state.previous_regime, clock))
                  ELSE UNCHANGED <<market_state, regime_out>>
    /\ reg_task' = [reg_task EXCEPT ![in_stream] = None]
    /\ UNCHANGED classified
    /\ UNCHANGED <<busVars, bookVars, wsVars, aggVars, toxVars, propVars, emitVars, restVars>>

NextReg ==
    \/ Tick(publish_interval, 2 * MaxClock)
    \/ \E in_stream \in REGIME_INPUT_STREAMS, ticker \in RegimeTickers, f \in Features :
          reg_process_message(in_stream, ticker, f)
    \/ \E in_stream \in REGIME_INPUT_STREAMS, redisOk \in BOOLEAN : reg_resume(in_stream, redisOk)

\* ======================================================================
\* Flow toxicity classifier (FlowToxicityClassifier), one market
\* ======================================================================
\* VPINs, strengths and confidences are counted in units of 1/1000000.
\* All trades carry timestamps within one burst window, and fewer trades
\* arrive than the size deque holds, so that the burst test counts the
\* trades and the mean trade size is total_volume / total_trades.  Trades
\* of more than one contract are among the first MaxBig trades of the market.

TradeKinds ==
    {[count |-> 1, taker_side |-> "yes"], [count |-> 12, taker_side |-> "no"],
     [count |-> 25, taker_side |-> "yes"], [count |-> 200, taker_side |-> "no"]}

\* MarketFlowState()
NewFlowState ==
    [current_bucket_volume |-> 0, current_bucket_buy_volume |-> 0, bucket_vpins |-> <<>>,
     total_volume |-> 0, total_trades |-> 0]

add_trade(state, trade) ==
    [state EXCEPT !.current_bucket_volume = @ + trade.count,
                  !.current_bucket_buy_volume =
                      IF trade.taker_side = "yes" THEN @ + trade.count ELSE @,
                  !.total_volume = @ + trade.count,
                  !.total_trades = @ + 1]

current_bucket_full(state) == state.current_bucket_volume >= bucket_size

\* |buy_ratio - 0.5| * 2
compute_vpin(state) ==
    IF state.current_bucket_volume = 0 THEN 0
    ELSE (Abs(2 * state.current_bucket_buy_volume - state.current_bucket_volume) * 1000000)
            \div state.current_bucket_volume

advance_bucket(state) ==
    [state EXCEPT !.bucket_vpins = LastN(Append(@, compute_vpin(state)), window_size),
                  !.current_bucket_volume = 0,
                  !.current_bucket_buy_volume = 0]

RECURSIVE SumSeq(_)
SumSeq(s) == IF s = <<>> THEN 0 ELSE Head(s) + SumSeq(Tail(s))

rolling_vpin(state) ==
    IF state.bucket_vpins = <<>> THEN 0
    ELSE SumSeq(state.bucket_vpins) \div Len(state.bucket_vpins)

\* buy_ratio > 0.6, < 0.4
dominant_side(state) ==
    IF state.current_bucket_volume = 0 THEN "neutral"
    ELSE IF 10 * state.current_bucket_buy_volume > 6 * state.current_bucket_volume THEN "yes"
    ELSE IF 10 * state.current_bucket_buy_volume < 4 * state.current_bucket_volume THEN "no"
    ELSE "neutral"

SideDirection(side) ==
    IF side = "yes" THEN "buy_yes" ELSE IF side = "no" THEN "buy_no" ELSE "neutral"

_create_toxicity_signal(vpin, state) ==
    [signal_type |-> "flow_toxicity", pattern |-> "vpin",
     direction |-> SideDirection(dominant_side(state)),
     strength |-> Min(1000000, vpin),
     confidence |-> Min(1000000,
                        500000 + (Len(state.bucket_vpins) * 300000) \div window_size),
     urgency |-> IF vpin > 850000 THEN "immediate" ELSE "watch"]

_create_rolling_toxicity_signal(state) ==
    [signal_type |-> "flow_toxicity", pattern |-> "sustained_toxicity",
     direction |-> SideDirection(dominant_side(state)),
     strength |-> Min(1000000, rolling_vpin(state)),
     confidence |-> 700000, urgency |-> "watch"]

\* the inter-arrival rate of trades with one timestamp is 0.0
_create_burst_signal(state) ==
    [signal_type |-> "flow_burst", pattern |-> "burst",
     direction |-> SideDirection(dominant_side(state)),
     strength |-> 0, confidence |-> 300000, urgency |-> "immediate"]

\* strength and confidence of the large-trade signal are left out
_create_large_trade_signal(trade) ==
    [signal_type |-> "flow_large_trade", pattern |-> "large_trade",
     direction |-> IF trade.taker_side = "yes" THEN "buy_yes" ELSE "buy_no",
     strength |-> 0, confidence |-> 0, urgency |-> "watch"]

detect_burst(state) == state.total_trades >= burst_min_trades

LargeTrade(state, trade) ==
    /\ state.total_volume > 0
    /\ trade.count * state.total_trades > state.total_volume * size_multiplier

SkippedByVolumeOnly(state) == state.total_volume < min_market_volume

Skipped(state) == state.total_volume < min_market_volume /\ state.total_trades > 10

\* the signals of one trade: added is the state after add_trade
ToxSignals(added, trade) ==
    LET full == current_bucket_full(added)
        vpin == compute_vpin(added)
        state == IF full THEN advance_bucket(added) ELSE added
    IN (IF full /\ vpin > vpin_threshold
        THEN <<_create_toxicity_signal(vpin, state)>> ELSE <<>>)
       \o (IF full /\ rolling_vpin(state) > rolling_vpin_threshold
                   /\ Len(state.bucket_vpins) >= 5
           THEN <<_create_rolling_toxicity_signal(state)>> ELSE <<>>)
       \o (IF detect_burst(state) THEN <<_create_burst_signal(state)>> ELSE <<>>)
       \o (IF LargeTrade(state, trade) THEN <<_create_large_trade_signal(trade)>> ELSE <<>>)

InitTox ==
    /\ flow_state = EmptyDict
    /\ fed = 0
    /\ unit_trades = TRUE
    /\ closed_at = <<>>
    /\ tox_ev = [kind |-> "start"]

tox_process_message(ticker, trade) ==
    LET state == Get(flow_state, ticker, NewFlowState)
        added == add_trade(state, trade)
        full == current_bucket_full(added)
    IN /\ fed < MaxTrades
       /\ trade.count = 1 \/ fed < MaxBig
       /\ fed' = fed + 1
       /\ unit_trades' = (unit_trades /\ trade.count = 1)
       /\ closed_at' = IF ~Skipped(state) /\ full THEN Append(closed_at, fed + 1)
                        ELSE closed_at
       /\ IF Skipped(state)
          THEN /\ flow_state' = Put(flow_state, ticker, state)
               /\ tox_ev' = [kind |-> "skipped", closed |-> FALSE, signals |-> <<>>]
          ELSE /\ flow_state' = Put(flow_state, ticker,
                                    IF full THEN advance_bucket(added) ELSE added)
               /\ tox_ev' = [kind |-> "added", closed |-> full,
                             filled_volume |-> added.current_bucket_volume,
                             filled_buy_volume |-> added.current_bucket_buy_volume,
                             vpin |-> compute_vpin(added),
                             signals |-> ToxSignals(added, trade)]
       /\ UNCHANGED <<busVars, bookVars, wsVars, aggVars, regVars, propVars, emitVars, restVars>>

NextTox ==
    \E trade \in TradeKinds : tox_process_message("M1", trade)

\* ======================================================================
\* Cross-market propagation (CrossMarketPropagationEngine), price moves
\* ======================================================================
\* Two markets of one event.  A title or subtitle is described by what the
\* three threshold patterns find in it: the number after "above", the number
\* after "below", the two numbers of "between ... and ...", or Absent.
\* Threshold values are counted in halves, so that a midpoint is an integer.

PropTickers == {"A", "B"}
EVENT == "EV-1"
PropPrices == {42, 45}

NoText == [above |-> Absent, below |-> Absent, lo |-> Absent, hi |-> Absent]
Text(above, below, lo, hi) == [above |-> above, below |-> below, lo |-> lo, hi |-> hi]
\* (title, subtitle) of market A: the threshold is in the subtitle
TitlesA == {<<NoText, NoText>>,
            <<NoText, Text(60, Absent, Absent, Absent)>>,
            <<NoText, Text(Absent, 60, 60, 70)>>,
            <<NoText, Text(Absent, Absent, 60, 71)>>}
\* (title, subtitle) of market B: the threshold is in the subtitle or in the title
TitlesB == {<<Text(60, Absent, Absent, Absent), NoText>>,
            <<NoText, Text(70, 80, Absent, Absent)>>,
            <<Text(60, Absent, Absent, Absent), Text(Absent, 70, Absent, Absent)>>,
            <<NoText, Text(Absent, Absent, 61, 70)>>}
TitleMaps == {[t \in PropTickers |-> IF t = "A" THEN a ELSE b] : a \in TitlesA, b \in TitlesB}

_parse_threshold(text) ==
    IF text.above # Absent THEN [type |-> "above", value |-> 2 * text.above]
    ELSE IF text.below # Absent THEN [type |-> "below", value |-> 2 * text.below]
    ELSE IF text.lo # Absent THEN [type |-> "between", value |-> text.lo + text.hi]
    ELSE None

\* the threshold of a (title, subtitle): the subtitle first, then the title
ParseTitles(pair) ==
    LET parsed == IF pair[2] # NoText THEN _parse_threshold(pair[2]) ELSE None
    IN IF parsed = None THEN _parse_threshold(pair[1]) ELSE parsed

InferIgnoringValues(source_thresh, target_thresh, source_direction) ==
    IF source_thresh = None \/ target_thresh = None THEN None
    ELSE IF source_thresh.type # target_thresh.type THEN None
    ELSE IF source_thresh.type \in {"above", "below"}
    THEN [direction |-> IF source_direction = "up" THEN "buy_yes" ELSE "buy_no"]
    ELSE None

\* _infer_expected_direction on the two cache entries (None when not cached)
_infer_expected_direction(source_thresh, target_thresh, source_direction) ==
    IF source_thresh = None \/ target_thresh = None THEN None
    ELSE IF source_thresh.type # target_thresh.type THEN None
    ELSE IF source_thresh.value = target_thresh.value THEN None
    ELSE IF source_thresh.type = "above"
    THEN [direction |-> IF source_direction = "up" THEN "buy_yes" ELSE "buy_no"]
    ELSE IF source_thresh.type = "below"
    THEN [direction |-> IF source_direction = "up" THEN "buy_yes" ELSE "buy_no"]
    ELSE None

\* SeriesMapper.get_market_titles(event_ticker): the (title, subtitle) of the
\* markets of the event
get_market_titles(event_ticker) == db_titles

\* _ensure_titles_cached: <<_event_titles_cache, _threshold_cache>> afterwards;
\* found says whether the lookup of the titles returns them or raises
_ensure_titles_cached(ticker, events, titles_cache, thresholds, found) ==
    LET event_ticker == Get(events, ticker, None)
    IN IF event_ticker = None \/ event_ticker.event \in DOMAIN titles_cache
       THEN <<titles_cache, thresholds>>
       ELSE IF ~found THEN <<titles_cache, thresholds>>
       ELSE LET titles == get_market_titles(event_ticker.event)
            IN <<Put(titles_cache, event_ticker.event, titles),
                 [t \in DOMAIN thresholds \cup DOMAIN titles |->
                     IF t \in DOMAIN thresholds THEN thresholds[t]
                     ELSE ParseTitles(titles[t])]>>

InitProp ==
    /\ db_titles = EmptyDict
    /\ market_prices = EmptyDict
    /\ price_move_timestamps = EmptyDict
    /\ event_ticker_cache = EmptyDict
    /\ event_titles_cache = EmptyDict
    /\ threshold_cache = EmptyDict
    /\ prop_ev = [kind |-> "start"]

notProp == <<busVars, bookVars, wsVars, aggVars, regVars, toxVars, emitVars, restVars>>

\* the markets of the event are listed with their titles
create_markets(titles) ==
    /\ db_titles = EmptyDict
    /\ db_titles' = titles
    /\ UNCHANGED <<market_prices, price_move_timestamps, event_ticker_cache,
                   event_titles_cache, threshold_cache, prop_ev>>
    /\ UNCHANGED notProp

\* process_message for a ticker_v2 message.  row: the event of the market is
\* found in the markets table; related: what get_related_markets returns, or
\* None when it raises; found1, found2: the two lookups of the titles succeed
prop_process_message(ticker, price, row, related, found1, found2) ==
    LET now == clock
        events == IF ticker \in DOMAIN event_ticker_cache THEN event_ticker_cache
                  ELSE Put(event_ticker_cache, ticker,
                           IF row THEN [event |-> EVENT] ELSE None)
        old_price == Get(market_prices, ticker, Absent)
        moved == old_price # Absent /\ Abs(price - old_price) >= min_price_move
        stamps == IF moved THEN Put(price_move_timestamps, ticker, now)
                  ELSE price_move_timestamps
        move_direction == IF price > old_price THEN "up" ELSE "down"
        \* the one related market that is not the moved one
        targets == IF related = None THEN {} ELSE related.list \ {ticker}
        lagging == {r \in targets :
                       /\ r \in DOMAIN market_prices
                       /\ now - Get(stamps, r, 0) > propagation_window}
        c1 == IF lagging = {} THEN <<event_titles_cache, threshold_cache>>
              ELSE _ensure_titles_cached(ticker, events, event_titles_cache,
                                         threshold_cache, found1)
        target == CHOOSE r \in lagging : TRUE
        c2 == IF lagging = {} THEN c1
              ELSE _ensure_titles_cached(target, events, c1[1], c1[2], found2)
        expected == IF lagging = {} THEN None
                    ELSE _infer_expected_direction(Get(c2[2], ticker, None),
                                                   Get(c2[2], target, None), move_direction)
    IN /\ db_titles # EmptyDict
       /\ event_ticker_cache' = events
       /\ market_prices' = Put(market_prices, ticker, price)
       /\ price_move_timestamps' = stamps
       /\ IF ~moved
          THEN /\ UNCHANGED <<event_titles_cache, threshold_cache>>
               /\ prop_ev' = [kind |-> "no_move", signals |-> {}]
          ELSE IF related = None
          THEN /\ UNCHANGED <<event_titles_cache, threshold_cache>>
               /\ prop_ev' = [kind |-> "raised", signals |-> {}]
          ELSE /\ event_titles_cache' = c2[1]
               /\ threshold_cache' = c2[2]
               /\ prop_ev' =
                    [kind |-> "checked",
                     signals |-> IF expected = None THEN {}
                                 ELSE {[signal_type |-> "cross_market_propagation",
                                        market_ticker |-> target,
                                        direction |-> expected.direction,
                                        source_market |-> ticker]}]
       /\ UNCHANGED db_titles
       /\ UNCHANGED notProp

NextProp ==
    \/ Tick(propagation_window + 1, 3 * MaxClock)
    \/ \E titles \in TitleMaps : create_markets(titles)
    \/ \E ticker \in PropTickers, price \in PropPrices, row \in BOOLEAN,
          related \in {None, [list |-> {}], [list |-> PropTickers]},
          found1 \in BOOLEAN, found2 \in BOOLEAN :
          prop_process_message(ticker, price, row, related, found1, found2)

\* ======================================================================
\* Signal emission (SignalProcessor._handle_batch and emit_signal)
\* ======================================================================
\* The signals are numbered in the order process_message returns them.

OutcomesOf(n) == 0..(2 * n)

\* the own topic after the publishes of one message: publish number 2i-1 is
\* signal i on OUTPUT_STREAM, publish number 2i is signal i on
\* kalshi:signals:all; the first good publishes succeed, the next one raises
PublishedOwn(first, n, good) == {first + i : i \in {j \in 1..n : 2 * j - 1 <= good}}

PublishedAll(first, n, good) == {first + i : i \in {j \in 1..n : 2 * j <= good}}

\* the signals emit_signal was called for: the loop stops at the first raise
Entered(first, n, good) == {first + i : i \in {j \in 1..n : 2 * (j - 1) <= good}}

RECURSIVE AppendAll(_, _)
AppendAll(topic, ids) ==
    IF ids = {} THEN topic
    ELSE LET m == CHOOSE x \in ids : \A y \in ids : x <= y
         IN AppendAll(Append(topic, m), ids \ {m})

InitEmit ==
    /\ own_topic = <<>>
    /\ all_topic = <<>>
    /\ signal_count = 0
    /\ emit_n = 0
    /\ emit_ev = [kind |-> "start"]

notEmit == <<busVars, bookVars, wsVars, aggVars, regVars, toxVars, propVars, restVars>>

\* _handle_batch for one message whose process_message returned n signals;
\* good: the number of publishes that succeed before one raises (2n: all do)
emit_handle_message(n, good) ==
    /\ emit_n + n <= MaxEmitted
    /\ own_topic' = AppendAll(own_topic, PublishedOwn(emit_n, n, good))
    /\ all_topic' = AppendAll(all_topic, PublishedAll(emit_n, n, good))
    /\ signal_count' = signal_count + Cardinality(PublishedAll(emit_n, n, good))
    /\ emit_n' = emit_n + n
    /\ emit_ev' = [kind |-> IF good = 2 * n THEN "emitted" ELSE "message_processing_error",
                   finished |-> Entered(emit_n, n, good)]
    /\ UNCHANGED notEmit

NextEmit ==
    \E n \in 1..MaxBatchSignals : \E good \in OutcomesOf(n) : emit_handle_message(n, good)

\* ======================================================================
\* One batch handled by a writer: insert attempts and sleeps
\* ======================================================================

FlushRows == UNION {[1..n -> [key : Keys, src : {0}]] : n \in 1..MaxFlushRows}

\* _write_snapshot: one INSERT transaction, no retry loop and no sleep
_write_snapshot(row, dbOk) ==
    [flush |-> IF dbOk THEN "ok" ELSE "failed", attempts |-> 1, sleeps |-> <<>>]

\* what a writer does with the parsed rows of one batch: the flushes it
\* makes, each with its outcome, its number of attempts and its sleeps
writer_flushes(kind, rows, db) ==
    IF PerMessage(kind)
    THEN [i \in 1..Len(rows) |-> _write_snapshot(rows[i], db[i])]
    ELSE LET f == flush_batch(kind, EmptyBag, rows, db, 0)
         IN <<[flush |-> f.flush, attempts |-> f.attempts, sleeps |-> f.sleeps]>>

InitFlush == flush_ev = [kind |-> "start", rows |-> <<>>, db |-> <<>>, flushes |-> <<>>]

notFlush == <<busVars, bookVars, wsVars, sigVars, storeVars, ingestVars, lifeVars, bfVars, makeVars,
    lateVars>>

writer_handle_batch(kind, rows, db) ==
    /\ flush_ev' = [kind |-> kind, rows |-> rows, db |-> db,
                    flushes |-> writer_flushes(kind, rows, db)]
    /\ UNCHANGED notFlush

NextFlush ==
    \E kind \in Writers, rows \in FlushRows, db \in [1..MAX_RETRIES -> BOOLEAN] :
        writer_handle_batch(kind, rows, db)

\* ======================================================================
\* Orderbook state (OrderbookStateManager), several markets
\* ======================================================================

StoreTickers == {"MKT-1", "MKT-2"}
StoreLevels == {<<>>} \cup {<<<<36, q>>>> : q \in 1..MaxQty}
StoreSnapshots == [market_ticker : StoreTickers, yes : StoreLevels, no : StoreLevels]
StoreDeltas == [market_ticker : StoreTickers, price : {36}, delta : {0 - 1, 1}, side : Sides]

\* the book apply_snapshot stores
SnapshotBook(snapshot) ==
    [market_ticker |-> snapshot.market_ticker,
     yes |-> LevelDict(snapshot.yes, EmptyDict),
     no |-> LevelDict(snapshot.no, EmptyDict)]

DeltaOnEmptyBook(raw, delta) ==
    LET book == IF raw = None
                THEN [market_ticker |-> delta.market_ticker, yes |-> EmptyDict, no |-> EmptyDict]
                ELSE raw
    IN [book EXCEPT ![delta.side] = SideAfterDelta(@, Str(delta.price), delta.delta)]

\* what apply_delta writes for the value raw it read: None when it returns
\* without writing
DeltaBook(raw, delta) ==
    IF raw = None THEN None
    ELSE [raw EXCEPT ![delta.side] = SideAfterDelta(@, Str(delta.price), delta.delta)]

InitStore ==
    /\ books = EmptyDict
    /\ dropped = {}
    /\ book_ev = [op |-> "none"]

notStore == <<busVars, bookVars, wsVars, sigVars, flushVars, ingestVars, lifeVars, bfVars, makeVars,
    lateVars>>

store_apply_snapshot(snapshot) ==
    /\ books' = Put(books, snapshot.market_ticker, SnapshotBook(snapshot))
    /\ book_ev' = [op |-> "snapshot", ticker |-> snapshot.market_ticker,
                   snapshot |-> snapshot,
                   after_drop |-> snapshot.market_ticker \in dropped]
    /\ UNCHANGED dropped
    /\ UNCHANGED notStore

store_apply_delta(delta) ==
    LET raw == Get(books, delta.market_ticker, None)
        written == DeltaBook(raw, delta)
    IN /\ written # None =>
            Get(written[delta.side], Str(delta.price), 0) <= MaxQty
       /\ books' = IF written = None THEN books
                   ELSE Put(books, delta.market_ticker, written)
       /\ dropped' = IF raw = None THEN dropped \cup {delta.market_ticker} ELSE dropped
       /\ book_ev' = [op |-> "delta", ticker |-> delta.market_ticker,
                      had_book |-> raw # None]
       /\ UNCHANGED notStore

NextStore ==
    \/ \E snapshot \in StoreSnapshots : store_apply_snapshot(snapshot)
    \/ \E delta \in StoreDeltas : store_apply_delta(delta)

\* ======================================================================
\* WebSocket ingest: _message_loop and the message handlers
\* ======================================================================
\* The frames are numbered in the order they are received.  The messages
\* here carry no sid and no seq, so the sequence bookkeeping is skipped.

MESSAGE_HANDLERS ==
    [trade |-> "_handle_trade",
     ticker |-> "_handle_ticker_v2",
     ticker_v2 |-> "_handle_ticker_v2",
     orderbook_snapshot |-> "_handle_orderbook_snapshot",
     orderbook_delta |-> "_handle_orderbook_delta",
     market_lifecycle_v2 |-> "_handle_lifecycle",
     subscribed |-> "_handle_subscribed"]

\* the topic a handler publishes to
HandlerTopic ==
    [_handle_trade |-> "kalshi:trades",
     _handle_ticker_v2 |-> "kalshi:ticker_v2",
     _handle_orderbook_snapshot |-> "kalshi:orderbook:snapshots",
     _handle_orderbook_delta |-> "kalshi:orderbook:deltas",
     _handle_lifecycle |-> "kalshi:lifecycle"]

IngestTopics == {HandlerTopic[h] : h \in DOMAIN HandlerTopic}
MsgTypes == DOMAIN MESSAGE_HANDLERS \cup {"bogus"}
\* a message: its type and whether its payload validates
IngestMsgs == [type : MsgTypes, valid : BOOLEAN]
\* the payloads of the orderbook messages
IngestSnapshot == [market_ticker |-> "MKT-1", yes |-> <<<<36, 1>>>>, no |-> <<>>]
IngestDelta == [market_ticker |-> "MKT-1", price |-> 36, delta |-> 1, side |-> "yes"]

\* the topic of a message type, None when the type publishes nothing
TopicOf(type) ==
    IF type \in DOMAIN MESSAGE_HANDLERS /\ MESSAGE_HANDLERS[type] \in DOMAIN HandlerTopic
    THEN [topic |-> HandlerTopic[MESSAGE_HANDLERS[type]]]
    ELSE None

CallsWithoutValidation(msg) == TopicOf(msg.type) # None

\* the handler gets past model_validate
Validated(msg) == TopicOf(msg.type) # None /\ msg.valid

InsertFirst(entries, n) == <<n>> \o entries

\* XADD
AppendTo(entries, n) == Append(entries, n)

InitIngest ==
    /\ recv = 0
    /\ loop_alive = TRUE
    /\ topics = [t \in IngestTopics |-> <<>>]
    /\ ingest_ev = [kind |-> "start"]

notIngest == <<busVars, bookVars, wsVars, sigVars, flushVars, lifeVars, bfVars, makeVars,
    lateVars>>

\* one iteration of _message_loop for a frame that is a JSON object with a
\* type.  stateOk, pubOk: the write to the state store and the XADD go through
ingest_message(msg, stateOk, pubOk) ==
    LET n == recv + 1
        validated == Validated(msg)
        isSnapshot == msg.type = "orderbook_snapshot"
        isDelta == msg.type = "orderbook_delta"
        written == IF isSnapshot THEN SnapshotBook(IngestSnapshot)
                   ELSE IF isDelta
                   THEN DeltaBook(Get(books, IngestDelta.market_ticker, None), IngestDelta)
                   ELSE None
        \* the state manager raised: the publish is not reached
        stateRaised == validated /\ (isSnapshot \/ isDelta) /\ ~stateOk
        published == validated /\ ~stateRaised /\ pubOk
    IN /\ loop_alive
       /\ recv < MaxRecv
       /\ written # None => Get(written.yes, "36", 0) <= MaxQty
       /\ recv' = n
       /\ books' = IF validated /\ ~stateRaised /\ written # None
                   THEN Put(books, "MKT-1", written) ELSE books
       /\ topics' = IF published
                    THEN [topics EXCEPT ![TopicOf(msg.type).topic] = AppendTo(@, n)]
                    ELSE topics
       /\ ingest_ev' = [kind |-> "message", n |-> n, type |-> msg.type, valid |-> msg.valid,
                        published |-> published,
                        after_invalid |-> /\ ingest_ev.kind = "message"
                                          /\ TopicOf(ingest_ev.type) # None
                                          /\ ~ingest_ev.valid]
       /\ UNCHANGED <<loop_alive, dropped, book_ev>>
       /\ UNCHANGED notIngest

\* a frame that is not a message: invalid JSON is logged and skipped; JSON
\* that is not an object makes msg.get raise out of the loop
ingest_frame(kind) ==
    /\ loop_alive
    /\ recv < MaxRecv
    /\ recv' = recv + 1
    /\ loop_alive' = (kind = "invalid_json")
    /\ ingest_ev' = [kind |-> kind, n |-> recv + 1]
    /\ UNCHANGED <<topics, storeVars>>
    /\ UNCHANGED notIngest

\* connect() reconnects and starts _message_loop again
ingest_restart ==
    /\ ~loop_alive
    /\ loop_alive' = TRUE
    /\ ingest_ev' = [kind |-> "restart"]
    /\ UNCHANGED <<recv, topics, storeVars>>
    /\ UNCHANGED notIngest

NextIngest ==
    \/ \E msg \in IngestMsgs, stateOk \in BOOLEAN, pubOk \in BOOLEAN :
          ingest_message(msg, stateOk, pubOk)
    \/ \E kind \in {"invalid_json", "not_object"} : ingest_frame(kind)
    \/ ingest_restart

\* ======================================================================
\* markets.status: LifecycleWriter and MarketScanner
\* ======================================================================

LifeTickers == {"MKT-1"}
\* a lifecycle event: status and event_type default to ""
LifeEvents == [market_ticker : LifeTickers,
               status : {"", "open", "closed", "settled"},
               event_type : {"", "determined", "close_date_updated"}]
LifeBatches == UNION {[1..n -> LifeEvents] : n \in 1..MaxLifeBatch}
\* the status of a market in a scan of the REST API
ScanStatuses == {"open", "closed", "settled"}

StatusOrEventType(event) == IF event.status # "" THEN event.status ELSE event.event_type

\* the value the UPDATE of the lifecycle writer binds to %(status)s
UpdateStatus(event) == event.status

\* UPDATE markets SET status = ... WHERE ticker = ...: no row, no change
RECURSIVE update_markets(_, _)
update_markets(statuses, events) ==
    IF events = <<>> THEN statuses
    ELSE LET e == Head(events)
         IN update_markets(IF e.market_ticker \in DOMAIN statuses
                           THEN Put(statuses, e.market_ticker, UpdateStatus(e))
                           ELSE statuses,
                           Tail(events))

InitLife ==
    /\ markets_status = EmptyDict
    /\ life_ev = [kind |-> "start"]

notLife == <<busVars, bookVars, wsVars, sigVars, flushVars, storeVars, ingestVars, bfVars, makeVars,
    lateVars>>

\* LifecycleWriter._handle_batch on the parsed events of a batch: one
\* transaction per attempt, committed on the first attempt the database takes
lifecycle_handle_batch(events, db) ==
    LET committed == \E i \in 1..MAX_RETRIES : db[i]
        last_event == events[Len(events)]
    IN /\ markets_status' = IF committed THEN update_markets(markets_status, events)
                            ELSE markets_status
       /\ life_ev' = [kind |-> "lifecycle", event |-> last_event, committed |-> committed,
                      had_row |-> last_event.market_ticker \in DOMAIN markets_status,
                      before |-> Get(markets_status, last_event.market_ticker, "")]
       /\ UNCHANGED notLife

\* MarketScanner._upsert_markets for one market: INSERT ... ON CONFLICT
\* (ticker) DO UPDATE SET status = EXCLUDED.status
_upsert_markets(ticker, status) ==
    /\ markets_status' = Put(markets_status, ticker, status)
    /\ life_ev' = [kind |-> "scan", ticker |-> ticker,
                   before |-> Get(markets_status, ticker, "")]
    /\ UNCHANGED notLife

NextLife ==
    \/ \E events \in LifeBatches, db \in [1..MAX_RETRIES -> BOOLEAN] :
          lifecycle_handle_batch(events, db)
    \/ \E ticker \in LifeTickers, status \in ScanStatuses : _upsert_markets(ticker, status)

\* ======================================================================
\* Backfiller.backfill_trades over a window
\* ======================================================================

\* what the REST API returns for the window: pages of trade ids; every page
\* but the last carries a cursor
BackfillPages == UNION {[1..n -> Keys] : n \in 1..MaxPageLen}
PageLists == UNION {[1..n -> BackfillPages] : n \in 1..MaxPages}

CountInserted(trades, tbl, after) == BagCardinality(after) - BagCardinality(tbl)

\* total += len(trades)
Counted(trades, tbl, after) == Len(trades)

\* the loop of backfill_trades from page i on: [table, total, raised].
\* fetched: the number of pages get_trades returns before it raises;
\* dbFail: the page whose _insert_trades raises (0: none)
RECURSIVE backfill_pages(_, _, _, _, _, _)
backfill_pages(pages, i, fetched, dbFail, tbl, total) ==
    IF i > Len(pages) \/ i > fetched
    THEN [table |-> tbl, total |-> total, raised |-> FALSE]
    ELSE IF i = dbFail
    THEN [table |-> tbl, total |-> total, raised |-> TRUE]
    ELSE LET rows == [j \in 1..Len(pages[i]) |-> [key |-> pages[i][j], src |-> 0]]
             t == insert_rows("trade", tbl, rows)
         IN backfill_pages(pages, i + 1, fetched, dbFail, t.table,
                           total + Counted(rows, tbl, t.table))

RECURSIVE PageKeys(_)
PageKeys(pages) ==
    IF pages = <<>> THEN {}
    ELSE SeqToSet(Head(pages)) \cup PageKeys(Tail(pages))

RECURSIVE FetchedCount(_)
FetchedCount(pages) ==
    IF pages = <<>> THEN 0 ELSE Len(Head(pages)) + FetchedCount(Tail(pages))

InitBackfill == bf_ev = [kind |-> "start", run |-> 0]

\* one call of backfill_trades
backfill_window(pages, fetched, dbFail) ==
    LET r == backfill_pages(pages, 1, fetched, dbFail, table, 0)
    IN /\ bf_ev.run < MaxRuns
       /\ table' = r.table
       /\ bf_ev' = [kind |-> "run", run |-> bf_ev.run + 1, pages |-> pages,
                    complete |-> fetched = Len(pages) /\ ~r.raised,
                    raised |-> r.raised,
                    returned |-> IF r.raised THEN Absent ELSE r.total,
                    all_present |-> \A k \in PageKeys(pages) : KeyPresent(table, k)]
       /\ UNCHANGED <<stream, last_delivered, pel, handler, cphase, last, deleted>>
       /\ UNCHANGED <<bookVars, wsVars, sigVars, flushVars, storeVars, ingestVars, lifeVars,
                      makeVars, lateVars>>

NextBackfill ==
    \E pages \in PageLists, fetched \in 0..MaxPages, dbFail \in 0..MaxPages :
        /\ fetched <= Len(pages)
        /\ backfill_window(pages, fetched, dbFail)

\* ======================================================================
\* Construction of signals: Signal(strength=..., confidence=...)
\* ======================================================================
\* strength and confidence in tenths.  The processors compute
\* min(1.0, x) and min(cap, base + x) from a raw quantity x.

ONE == 10
RawQuantities == {0 - 5, 0, 10, 15}
\* the raw quantities of the signals one message makes the processor build
RawSignals == [strength : RawQuantities, confidence : RawQuantities]
RawLists == UNION {[1..n -> RawSignals] : n \in 0..MaxBuilt}

ValidationError == [error |-> "ValidationError"]

SignalUnchecked(strength, confidence) ==
    [strength |-> strength, confidence |-> confidence]

\* Signal(...): Field(ge=0.0, le=1.0) on strength and on confidence
Signal(strength, confidence) ==
    IF strength >= 0 /\ strength <= ONE /\ confidence >= 0 /\ confidence <= ONE
    THEN [strength |-> strength, confidence |-> confidence]
    ELSE ValidationError

\* _create_*_signal: strength=min(1.0, x), confidence as computed
create_signal(raw) == Signal(Min(ONE, raw.strength), raw.confidence)

\* process_message building its signals in order: raised is TRUE when one
\* of them does not validate, and then no list is returned
RECURSIVE build_signals(_)
build_signals(raws) ==
    IF raws = <<>> THEN [raised |-> FALSE, signals |-> <<>>]
    ELSE LET sig == create_signal(Head(raws))
             rest == build_signals(Tail(raws))
         IN IF sig = ValidationError \/ rest.raised
            THEN [raised |-> TRUE, signals |-> <<>>]
            ELSE [raised |-> FALSE, signals |-> <<sig>> \o rest.signals]

InitMake ==
    /\ signal_topic = <<>>
    /\ make_ev = [kind |-> "start", raws |-> <<>>]

\* _handle_batch for one message: process_message builds the signals, each
\* is emitted; an exception of process_message is logged and nothing is emitted
make_handle_message(raws) ==
    LET built == build_signals(raws)
    IN /\ Len(signal_topic) + Len(built.signals) <= MaxPublished
       /\ signal_topic' = signal_topic \o built.signals
       /\ make_ev' = [kind |-> IF built.raised THEN "message_processing_error"
                               ELSE "emitted",
                      raws |-> raws]
       /\ UNCHANGED <<busVars, bookVars, wsVars, sigVars, flushVars, storeVars, ingestVars,
                      lifeVars, bfVars, lateVars>>

NextMake == \E raws \in RawLists : make_handle_message(raws)

\* ======================================================================
\* The consumer group shared by the signal processors
\* ======================================================================
\* BaseSignalProcessor.run starts one consume() per input topic with
\* group=CONSUMER_GROUP and consumer=PROCESSOR_NAME + "_" + topic.

CONSUMER_GROUP == "signal_processors"
GroupTopics == {"kalshi:trades", "kalshi:ticker_v2"}

\* the processors whose INPUT_STREAMS hold the topic
Processors(topic) ==
    IF topic = "kalshi:trades" THEN {"flow_toxicity", "regime"}
    ELSE {"oi_divergence", "regime", "cross_market", "lifecycle_alpha"}

\* the group a processor reads the topic with
GroupOf(processor, topic) == CONSUMER_GROUP

InitGroup ==
    /\ topic_len = [t \in GroupTopics |-> 0]
    /\ group_last = [t \in GroupTopics |-> [g \in {GroupOf(p, t) : p \in Processors(t)} |-> 0]]
    /\ received = [t \in GroupTopics |-> [p \in Processors(t) |-> {}]]

notGroup == <<earlyVars, cycVars, mgrVars, snapVars, clsVars, alphaVars>>

\* the ingestion side adds an entry to the topic
group_xadd(topic) ==
    /\ topic_len[topic] < MaxTopicLen
    /\ topic_len' = [topic_len EXCEPT ![topic] = @ + 1]
    /\ UNCHANGED <<group_last, received, notGroup>>

\* one read cycle of the processor's consumer on the topic that returns
\* entries: XREADGROUP ">" hands out the ids after the last-delivered id of
\* the group, which then moves to the end of the topic; the entries go to
\* the processor's _handle_batch
group_consume(processor, topic) ==
    LET g == GroupOf(processor, topic)
        ids == (group_last[topic][g] + 1)..topic_len[topic]
    IN /\ ids # {}
       /\ group_last' = [group_last EXCEPT ![topic][g] = topic_len[topic]]
       /\ received' = [received EXCEPT ![topic][processor] = @ \cup ids]
       /\ UNCHANGED <<topic_len, notGroup>>

NextGroup ==
    \/ \E topic \in GroupTopics : group_xadd(topic)
    \/ \E topic \in GroupTopics : \E processor \in Processors(topic) :
          group_consume(processor, topic)

\* ======================================================================
\* Batches with entries that do not parse
\* ======================================================================
\* One consumer whose handler is a writer's _handle_batch or a processor's
\* _handle_batch, reading batches of up to CycleBatch entries.

CycleHandlers == {"writer", "processor"}

\* the entries of a batch as the handler gets them
CycleEntries(ids) ==
    [i \in 1..Len(ids) |-> [id |-> ids[i], key |-> "X1", valid |-> cyc_stream[ids[i]]]]

\* the handler on a batch: for msg in messages: try: parse, validate (and
\* process) except Exception: log.  The flush of a writer does not raise.
\* [outcome, handled]: handled are the entries that were parsed and used.
cycle_handle_batch(kind, msgs) ==
    LET rows == ParseRows(msgs)
    IN [outcome |-> "returned", handled |-> {rows[i].src : i \in 1..Len(rows)}]

InitCycle ==
    /\ cyc_stream = <<>>
    /\ cyc_last = 0
    /\ cyc_pel = {}
    /\ cyc_acked = {}
    /\ cyc_ev = [op |-> "start"]

notCycle == <<earlyVars, grpVars, mgrVars, snapVars, clsVars, alphaVars>>

cycle_publish(valid) ==
    /\ Len(cyc_stream) < MaxCycleLen
    /\ cyc_stream' = Append(cyc_stream, valid)
    /\ UNCHANGED <<cyc_last, cyc_pel, cyc_acked, cyc_ev, notCycle>>

\* one iteration of the live loop of consume() that read a non-empty batch
cycle_consume(kind, ackOk) ==
    /\ cyc_last < Len(cyc_stream)
    /\ LET hi == Min(Len(cyc_stream), cyc_last + CycleBatch)
           ids == [i \in 1..(hi - cyc_last) |-> cyc_last + i]
           r == cycle_handle_batch(kind, CycleEntries(ids))
           ack == xack(r.outcome, ackOk)
       IN /\ cyc_last' = hi
          /\ cyc_pel' = IF ack THEN cyc_pel ELSE cyc_pel \cup SeqToSet(ids)
          /\ cyc_acked' = IF ack THEN cyc_acked \cup SeqToSet(ids) ELSE cyc_acked
          /\ cyc_ev' = [op |-> "consume", kind |-> kind, ids |-> SeqToSet(ids),
                        handled |-> r.handled, outcome |-> r.outcome, ackOk |-> ackOk,
                        acked |-> ack, again |-> SeqToSet(ids) \cap cyc_acked]
    /\ UNCHANGED <<cyc_stream, notCycle>>

\* consume() entered again after a crash: one batch of _process_pending
cycle_process_pending(kind, ackOk) ==
    /\ cyc_pel # {}
    /\ LET ids == FirstIds(cyc_pel, CycleBatch)
           r == cycle_handle_batch(kind, CycleEntries(ids))
           ack == xack(r.outcome, ackOk)
       IN /\ cyc_pel' = IF ack THEN cyc_pel \ SeqToSet(ids) ELSE cyc_pel
          /\ cyc_acked' = IF ack THEN cyc_acked \cup SeqToSet(ids) ELSE cyc_acked
          /\ cyc_ev' = [op |-> "pending", kind |-> kind, ids |-> SeqToSet(ids),
                        handled |-> r.handled, outcome |-> r.outcome, ackOk |-> ackOk,
                        acked |-> ack, again |-> SeqToSet(ids) \cap cyc_acked]
    /\ UNCHANGED <<cyc_stream, cyc_last, notCycle>>

NextCycle ==
    \/ \E valid \in BOOLEAN : cycle_publish(valid)
    \/ \E kind \in CycleHandlers, ackOk \in BOOLEAN : cycle_consume(kind, ackOk)
    \/ \E kind \in CycleHandlers, ackOk \in BOOLEAN : cycle_process_pending(kind, ackOk)

\* ======================================================================
\* Subscription manager (SubscriptionManager) driving the WebSocket manager
\* ======================================================================

NoSid == 1 - 1
\* what _filter_active returns for new_markets, and what callers pass as
\* closed_markets
TickerLists == {<<>>, <<"T1">>, <<"T2">>, <<"T1", "T2">>}

RECURSIVE SetToList(_)
SetToList(S) ==
    IF S = {} THEN <<>>
    ELSE LET x == CHOOSE y \in S : TRUE IN <<x>> \o SetToList(S \ {x})

\* the state the manager's calls read and write
MgrState ==
    [next_sid |-> next_sid, subscriptions |-> subscriptions, sub_info |-> sub_info,
     outbox |-> <<>>, orderbook_sid |-> orderbook_sid,
     active_ob_tickers |-> active_ob_tickers, raised |-> FALSE]

\* KalshiWSManager.update_subscription(sid, add_tickers=add) or
\* (sid, remove_tickers=remove) as the manager calls it: nothing happens
\* without a socket; a send that fails raises before the list is changed
ws_update(st, sid, add, remove, sendOk) ==
    IF sid \notin st.subscriptions \/ ~ws THEN st
    ELSE IF ~sendOk THEN [st EXCEPT !.raised = TRUE]
    ELSE LET prev == st.sub_info[sid].market_tickers
             new == IF prev = None THEN None
                    ELSE IF add # <<>> THEN Some(prev.list \o add)
                    ELSE Some(Without(prev.list, remove))
         IN [st EXCEPT !.sub_info = [@ EXCEPT ![sid].market_tickers = new],
                       !.outbox = @ \o <<update_cmd(sid,
                                        IF add # <<>> THEN "add_markets" ELSE "remove_markets",
                                        Some(IF add # <<>> THEN add ELSE remove))>>]

\* the lines of on_markets_discovered / on_markets_closed after the call of
\* the WebSocket manager: not reached when the call raised
after_ws_call(st, after) == IF st.raised THEN st ELSE after

\* on_markets_discovered with active = _filter_active(new_markets)
Discovered(st, active, sendOk) ==
    IF active = <<>> THEN st
    ELSE IF st.orderbook_sid = NoSid
    THEN LET sid == st.next_sid
             sending == connected /\ ws
             sub == [st EXCEPT
                       !.next_sid = @ + 1,
                       !.subscriptions = @ \cup {sid},
                       !.sub_info = Put(@, sid, [sid |-> sid, channels |-> <<"orderbook_delta">>,
                                                 market_tickers |-> Some(active)]),
                       !.outbox = @ \o (IF sending /\ sendOk
                                        THEN <<send_subscribe(sid + 1, <<"orderbook_delta">>,
                                                              Some(active))>>
                                        ELSE <<>>),
                       !.raised = sending /\ ~sendOk]
         IN after_ws_call(sub, [sub EXCEPT !.orderbook_sid = sid,
                                           !.active_ob_tickers = @ \cup SeqToSet(active)])
    ELSE LET upd == ws_update(st, st.orderbook_sid, active, <<>>, sendOk)
         IN after_ws_call(upd, [upd EXCEPT !.active_ob_tickers = @ \cup SeqToSet(active)])

\* on_markets_closed(closed_markets)
Closed(st, closed_markets, sendOk) ==
    LET to_remove == SelectSeq(closed_markets, LAMBDA t : t \in st.active_ob_tickers)
    IN IF to_remove = <<>> \/ st.orderbook_sid = NoSid THEN st
       ELSE LET upd == ws_update(st, st.orderbook_sid, <<>>, to_remove, sendOk)
            IN after_ws_call(upd, [upd EXCEPT !.active_ob_tickers = @ \ SeqToSet(to_remove)])

\* reconcile() with desired = get_active_orderbook_tickers(); every ticker
\* of to_add passes _filter_active
Reconciled(st, desired, sendAdd, sendRemove) ==
    LET to_add == SetToList(desired \ st.active_ob_tickers)
        to_remove == SetToList(st.active_ob_tickers \ desired)
        added == IF to_add # <<>> THEN Discovered(st, to_add, sendAdd) ELSE st
    IN IF added.raised \/ to_remove = <<>> THEN added
       ELSE Closed(added, to_remove, sendRemove)

InitMgr ==
    /\ orderbook_sid = NoSid
    /\ active_ob_tickers = {}
    /\ mgr_ev = [op |-> "start"]

\* a call of the manager that leaves st behind
MgrCall(op, st) ==
    /\ st.next_sid <= MaxSubs + 1
    /\ \A sid \in st.subscriptions :
          st.sub_info[sid].market_tickers # None
             => Len(st.sub_info[sid].market_tickers.list) <= MaxMgrTickers
    /\ next_sid' = st.next_sid
    /\ subscriptions' = st.subscriptions
    /\ sub_info' = st.sub_info
    /\ outbox' = st.outbox
    /\ orderbook_sid' = st.orderbook_sid
    /\ active_ob_tickers' = st.active_ob_tickers
    /\ mgr_ev' = [op |-> op, raised |-> st.raised, open |-> ws]
    /\ gap_log' = None
    /\ ev' = NoEvent
    /\ UNCHANGED <<pc, connected, ws, reconnect_delay, sleep_n, last_sleep, resub_queue,
                   sequence_numbers>>
    /\ UNCHANGED <<busVars, bookVars, sigVars, flushVars, storeVars, ingestVars, lifeVars,
                   bfVars, makeVars, grpVars, cycVars, snapVars, clsVars, alphaVars>>

on_markets_discovered(active, sendOk) ==
    MgrCall("on_markets_discovered", Discovered(MgrState, active, sendOk))

on_markets_closed(closed_markets, sendOk) ==
    MgrCall("on_markets_closed", Closed(MgrState, closed_markets, sendOk))

reconcile(desired, sendAdd, sendRemove) ==
    MgrCall("reconcile", Reconciled(MgrState, desired, sendAdd, sendRemove))

NextMgr ==
    \/ connect_ok
    \/ connection_closed
    \/ backoff
    \/ \E sendOk \in BOOLEAN : resubscribe_all(sendOk)
    \/ \E active \in TickerLists, sendOk \in BOOLEAN : on_markets_discovered(active, sendOk)
    \/ \E closed \in TickerLists, sendOk \in BOOLEAN : on_markets_closed(closed, sendOk)
    \/ \E desired \in SUBSET Tickers, sendAdd \in BOOLEAN, sendRemove \in BOOLEAN :
          reconcile(desired, sendAdd, sendRemove)

\* ======================================================================
\* Periodic orderbook snapshot task (OrderbookWriter._periodic_snapshot)
\* ======================================================================
\* The task runs in the writer process and reads the books that the
\* ingest process writes; each GET is atomic.

\* int(p) of a price key
IntOf(key) == CHOOSE p \in Prices : Str(p) = key

\* [[int(p), q] for p, q in side.items()]
LevelsOf(side) == {<<IntOf(k), side[k]>> : k \in DOMAIN side}

RECURSIVE SumQty(_)
SumQty(levels) ==
    IF levels = {} THEN 0
    ELSE LET l == CHOOSE x \in levels : TRUE IN l[2] + SumQty(levels \ {l})

\* sum(q for _, q in sorted(levels, key=lambda x: -x[0])[:5]); the books
\* here have at most five levels a side
depth_5(levels) == SumQty(levels)

MaxPrice(levels) == CHOOSE p \in {l[1] : l \in levels} : \A l \in levels : l[1] <= p

\* the spread of a book: None without a book or with an empty side
SpreadOfBook(book) ==
    IF book = None THEN None
    ELSE IF DOMAIN book.yes = {} \/ DOMAIN book.no = {} THEN None
    ELSE [spread |-> 100 - MaxPrice(LevelsOf(book.yes)) - MaxPrice(LevelsOf(book.no))]

\* get_spread(ticker): reads the book at the key again
get_spread(ticker) == SpreadOfBook(Get(books, ticker, None))

InitSnap ==
    /\ snap_task = None
    /\ snap_row = None

\* the task reads the book of one key: book = await get_current_book(ticker)
periodic_get_book(ticker) ==
    /\ snap_task = None
    /\ ticker \in DOMAIN books
    /\ snap_task' = [ticker |-> ticker, book |-> books[ticker]]
    /\ UNCHANGED <<snap_row, earlyVars, grpVars, cycVars, mgrVars, clsVars, alphaVars>>

\* the task builds the row, awaiting get_spread(ticker), and inserts it
periodic_insert_row ==
    /\ snap_task # None
    /\ LET yes_levels == LevelsOf(snap_task.book.yes)
           no_levels == LevelsOf(snap_task.book.no)
       IN snap_row' = [market_ticker |-> snap_task.ticker,
                       yes_levels |-> yes_levels, no_levels |-> no_levels,
                       spread |-> get_spread(snap_task.ticker),
                       yes_depth_5 |-> depth_5(yes_levels),
                       no_depth_5 |-> depth_5(no_levels)]
    /\ snap_task' = None
    /\ UNCHANGED <<earlyVars, grpVars, cycVars, mgrVars, clsVars, alphaVars>>

\* one market
SnapTickers == {"MKT-1"}

NextSnap ==
    \/ \E snapshot \in {x \in StoreSnapshots : x.market_ticker \in SnapTickers} :
          store_apply_snapshot(snapshot)
    \/ \E delta \in {x \in StoreDeltas : x.market_ticker \in SnapTickers} :
          store_apply_delta(delta)
    \/ \E ticker \in SnapTickers : periodic_get_book(ticker)
    \/ periodic_insert_row

\* ======================================================================
\* RegimeMarketState.classify on every combination of features
\* ======================================================================
\* last_price in cents (Absent for None); trade_rate in tenths per minute
\* (len(recent) / 5.0 is a multiple of 0.2); message_rate and
\* depth_imbalance in hundredths.

ClassifyInputs ==
    [last_price : {Absent, 0, 5, 6, 50, 94, 95, 99},
     trade_rate : {0, 2, 20, 22, 50, 52},
     message_rate : {0, 8, 10, 50, 52},
     depth_imbalance : {0 - 100, 0 - 61, 0 - 60, 0, 60, 61, 100}]

InitClassify == cls_ev = [op |-> "start"]

\* regime = state.classify(self.config)
classify_call(f) ==
    /\ cls_ev' = [op |-> "classify", f |-> f, regime |-> classify(f)]
    /\ UNCHANGED <<earlyVars, grpVars, cycVars, mgrVars, snapVars, alphaVars>>

NextClassify == \E f \in ClassifyInputs : classify_call(f)

\* ======================================================================
\* LifecycleAlphaScanner: signals around a market's open
\* ======================================================================
\* Times in seconds, prices in cents (Absent for None), strength and
\* confidence in hundredths.

AlphaTickers == {"A", "B"}
AlphaSteps == {149, 150}
AlphaPrices == {Absent, 20, 50, 65}
LifecycleEventTypes == {"open", "closed"}
RelatedChoices == {{}, AlphaTickers}

InWindowInclusive(now, open_time) == now - open_time <= NEW_MARKET_WINDOW

\* time.time() - open_time < self.config.get("new_market_window", 300)
InWindow(now, open_time) == now - open_time < NEW_MARKET_WINDOW

AlphaSignal(signal_type, market_ticker, direction, strength, confidence) ==
    [signal_type |-> signal_type, market_ticker |-> market_ticker, direction |-> direction,
     strength |-> strength, confidence |-> confidence]

_check_new_market_premium(market_ticker) ==
    <<AlphaSignal("new_market_open", market_ticker, "neutral", 40, 40)>>

\* one signal per related market other than the settled one
_check_settlement_cascade(market_ticker, related) ==
    LET others == SetToList(related \ {market_ticker})
    IN [i \in 1..Len(others) |-> AlphaSignal("settlement_cascade", others[i], "neutral", 60, 50)]

_evaluate_new_market_price(market_ticker, price) ==
    IF price = Absent THEN <<>>
    ELSE LET distance_from_mid == IF price >= 50 THEN price - 50 ELSE 50 - price
             directional ==
                 IF distance_from_mid >= 15
                 THEN <<AlphaSignal("new_market_open", market_ticker,
                                    IF price > 50 THEN "buy_no" ELSE "buy_yes",
                                    Min(100, 2 * distance_from_mid),
                                    Min(60, 30 + distance_from_mid))>>
                 ELSE <<>>
             extreme ==
                 IF price <= 20 \/ price >= 80
                 THEN <<AlphaSignal("new_market_extreme_price", market_ticker,
                                    IF price >= 80 THEN "buy_no" ELSE "buy_yes", 50, 35)>>
                 ELSE <<>>
         IN directional \o extreme

InitAlpha ==
    /\ alpha_clock = 0
    /\ recent_opens = [t \in AlphaTickers |-> Absent]
    /\ alpha_opens = {}
    /\ alpha_ev = [op |-> "start", ticker |-> "", price |-> Absent, time |-> 0,
                   opened |-> {}, signals |-> <<>>]

notAlpha == <<earlyVars, grpVars, cycVars, mgrVars, snapVars, clsVars>>

\* time passes
alpha_tick(d) ==
    /\ alpha_clock + d <= MaxAlphaClock
    /\ alpha_clock' = alpha_clock + d
    /\ UNCHANGED <<recent_opens, alpha_opens, alpha_ev, notAlpha>>

\* process_message(STREAM_LIFECYCLE, message)
alpha_process_lifecycle(market_ticker, event_type, related) ==
    /\ event_type = "open" => Cardinality(alpha_opens) < MaxOpens
    /\ recent_opens' = IF event_type = "open"
                       THEN [recent_opens EXCEPT ![market_ticker] = alpha_clock]
                       ELSE recent_opens
    /\ alpha_opens' = IF event_type = "open"
                      THEN alpha_opens \cup {[ticker |-> market_ticker, ts |-> alpha_clock]}
                      ELSE alpha_opens
    /\ alpha_ev' = [op |-> "lifecycle", ticker |-> market_ticker, price |-> Absent,
                    time |-> alpha_clock, opened |-> alpha_opens',
                    signals |-> IF event_type = "open"
                                THEN _check_new_market_premium(market_ticker)
                                ELSE _check_settlement_cascade(market_ticker, related)]
    /\ UNCHANGED <<alpha_clock, notAlpha>>

\* process_message(STREAM_TICKER_V2, message)
alpha_process_ticker(market_ticker, price) ==
    /\ alpha_ev' = [op |-> "ticker", ticker |-> market_ticker, price |-> price,
                    time |-> alpha_clock, opened |-> alpha_opens,
                    signals |-> IF /\ recent_opens[market_ticker] # Absent
                                   /\ InWindow(alpha_clock, recent_opens[market_ticker])
                                THEN _evaluate_new_market_price(market_ticker, price)
                                ELSE <<>>]
    /\ UNCHANGED <<alpha_clock, recent_opens, alpha_opens, notAlpha>>

NextAlpha ==
    \/ \E d \in AlphaSteps : alpha_tick(d)
    \/ \E t \in AlphaTickers, e \in LifecycleEventTypes, related \in RelatedChoices :
          alpha_process_lifecycle(t, e, related)
    \/ \E t \in AlphaTickers, price \in AlphaPrices : alpha_process_ticker(t, price)

\* ======================================================================
\* Specifications
\* ======================================================================

Init ==
    /\ InitBus /\ InitBook /\ InitWS /\ InitAgg /\ InitReg /\ InitTox
    /\ InitProp /\ InitEmit /\ InitFlush /\ InitStore /\ InitIngest /\ InitLife /\ InitBackfill /\ InitMake
    /\ InitGroup /\ InitCycle /\ InitMgr /\ InitSnap
    /\ InitClassify /\ InitAlpha

\* the bus, one consumer group and the table it writes
SpecBus == Init /\ [][NextBus]_vars

\* a consumer whose handler may raise, on a topic that is trimmed
SpecReplay == Init /\ [][NextReplay]_vars

\* the same consumer, where every read that can be made is made
SpecLive ==
    /\ Init /\ [][NextReplay]_vars
    /\ WF_vars(\E db \in DbChoices, raises \in Raises, ackOk \in BOOLEAN :
                  process_pending(db, raises, ackOk))
    /\ WF_vars(\E db \in DbChoices, raises \in Raises, ackOk \in BOOLEAN :
                  consume(db, raises, ackOk))

\* the orderbook of one market
SpecBook == Init /\ [][NextBook]_vars

\* the websocket manager with orderbook subscriptions that are updated
SpecWS == Init /\ [][NextWS(OrderbookSubs, TickerArgs, PlainMsgs)]_vars

\* the websocket manager with channel subscriptions, receiving sequenced messages
SpecSeq == Init /\ [][NextWS(BroadcastSubs, {None}, TypedMsgs \cup PlainMsgs)]_vars

\* the signal aggregator
SpecAgg ==
    Init /\ [][NextAgg(TimingKinds, AggTickers, {None, [regime |-> "bogus"]}, {5}, MaxActive)]_vars

\* the aggregator of one market, all signal kinds and regimes
SpecScore == Init /\ [][NextAgg(SignalKinds, {"M1"}, RegimeRaws, {10}, MaxActive)]_vars

\* the aggregator of one market filling its active list up to the cap
SpecCap == Init /\ [][NextAgg(CapKinds, {"M1"}, {None}, {5}, MaxHeld)]_vars

\* the regime detector of one market with its three consumer tasks
SpecReg == Init /\ [][NextReg]_vars

\* the flow toxicity classifier of one market
SpecTox == Init /\ [][NextTox]_vars

\* the cross-market propagation engine on price moves
SpecProp == Init /\ [][NextProp]_vars

\* the emission of the signals of a processor
SpecEmit == Init /\ [][NextEmit]_vars

\* the insert attempts of a writer on one batch
SpecFlush == Init /\ [][NextFlush]_vars

\* the stored orderbooks of two markets
SpecStore == Init /\ [][NextStore]_vars

\* the routing of the messages received over the websocket
SpecIngest == Init /\ [][NextIngest]_vars

\* the status column of the markets table
SpecLife == Init /\ [][NextLife]_vars

\* repeated runs of the backfiller over windows of trades
SpecBackfill == Init /\ [][NextBackfill]_vars

\* the signals a processor builds and publishes
SpecMake == Init /\ [][NextMake]_vars

\* the processors reading their input topics through the consumer group
SpecGroup == Init /\ [][NextGroup]_vars

\* a writer or processor reading batches that hold unparsable entries
SpecCycle == Init /\ [][NextCycle]_vars

\* the subscription manager and the connection of the WebSocket manager
SpecMgr == Init /\ [][NextMgr]_vars

\* the periodic snapshot task next to the ingest process writing the books
SpecSnap == Init /\ [][NextSnap]_vars

\* classify() applied to combinations of features
SpecClassify == Init /\ [][NextClassify]_vars

\* the lifecycle alpha scanner, with time passing between its messages
SpecAlpha == Init /\ [][NextAlpha]_vars

\* ----------------------------------------------------------------------
\* Claims about the bus and the writers
\* ----------------------------------------------------------------------

\* C1: a batch is acknowledged only after its handler returned without
\* raising; when the handler raised, no id of the batch was acknowledged and
\* every entry of the batch is in the pending-entries list.
C1_AckOnlyAfterReturn ==
    /\ last.acked => last.outcome = "returned" /\ last.ids \cap pel = {}
    /\ last.outcome = "raised" => ~last.acked /\ last.ids \subseteq pel

C1_Witness ==
    /\ last.outcome = "raised"
    /\ last.ids # {}
    /\ last.ids \subseteq pel

\* C2: when a writer's insert of a batch failed on all 3 attempts, the
\* entries of the batch are not acknowledged and stay in the
\* pending-entries list.
C2_FailedFlushStaysPending ==
    (handler \in Writers /\ last.flush = "failed" /\ last.ids # {})
        => ~last.acked /\ last.ids \subseteq pel

Copies(k) == LET rs == {r \in BagToSet(table) : r.key = k}
             IN BagCardinality([r \in rs |-> table[r]])

C4_OneRowPerTradeId ==
    handler = "trade" =>
        /\ \A k \in Keys : Copies(k) <= 1
        /\ last.dbUp => last.flush = "ok" /\ \A k \in last.keys : Copies(k) = 1

C4_RowsStay ==
    handler = "trade" => \A r \in BagToSet(table) : r \in BagToSet(table')

\* C4: the trades table holds exactly one row per distinct trade_id that was
\* inserted (by the trade writer or the backfiller, redelivered duplicates
\* included), and inserting a trade_id that is present changes nothing.
C4_TradeInsertIdempotent == [](C4_OneRowPerTradeId) /\ [][C4_RowsStay]_vars

\* a trade_id handled while a row of another origin already holds it
C4_Witness ==
    /\ handler = "trade"
    /\ last.flush = "ok"
    /\ last.ids # {}
    /\ \E r \in BagToSet(table) : r.key \in last.keys /\ r.src \notin last.ids

C5Writers == {"ticker", "ob_delta", "ob_snapshot", "lifecycle", "signal",
              "composite", "regime"}

\* C5: for the ticker, orderbook-delta, orderbook-snapshot, lifecycle,
\* signal, composite and regime writers, handling the same bus entries again
\* leaves the table as it was: no entry has more than one row.
C5_RedeliveryIdempotent ==
    handler \in C5Writers => \A r \in BagToSet(table) : table[r] <= 1

\* ----------------------------------------------------------------------
\* Claims about the orderbook state
\* ----------------------------------------------------------------------

\* C3: after one apply_snapshot followed by any number of apply_delta calls,
\* the stored book equals the snapshot's levels with each delta added to its
\* side and price in order (a missing price starts at 0), and no stored
\* level on either side has a quantity <= 0.
C3_BookIsSnapshotPlusDeltas ==
    orderbook # None =>
        \A side \in Sides :
            /\ DOMAIN orderbook[side] = {Str(p) : p \in DOMAIN ref_book[side]}
            /\ \A p \in DOMAIN ref_book[side] : orderbook[side][Str(p)] = ref_book[side][p]
            /\ \A k \in DOMAIN orderbook[side] : orderbook[side][k] > 0

\* ----------------------------------------------------------------------
\* Claims about the websocket manager
\* ----------------------------------------------------------------------

\* C6: for every server message carrying (sid, seq), a gap is reported
\* exactly when a previous seq is recorded for the sid and seq > last_seq + 1,
\* with expected = last_seq + 1 and received = seq; the first message of a
\* sid and a message with seq = last_seq + 1 are not reported.
C6_GapReportedExactly ==
    [][\A msg \in TypedMsgs : message_loop(msg) =>
          gap_log' = IF msg.sid \in DOMAIN sequence_numbers
                        /\ msg.seq > sequence_numbers[msg.sid] + 1
                     THEN [sid |-> msg.sid,
                           expected |-> sequence_numbers[msg.sid] + 1,
                           received |-> msg.seq]
                     ELSE None]_vars

C6_Witness ==
    /\ gap_log # None
    /\ gap_log.received > gap_log.expected

\* C7: after the message loop processed a message carrying (sid, seq),
\* sequence_numbers[sid] is that seq, also when a gap was detected and when
\* seq is not greater than the previous value; nothing is sent to the server.
C7_LastSeqAlwaysRecorded ==
    [][\A msg \in TypedMsgs : message_loop(msg) =>
          /\ msg.sid \in DOMAIN sequence_numbers'
          /\ sequence_numbers'[msg.sid] = msg.seq
          /\ outbox' = <<>>]_vars

C7_Witness ==
    /\ pc = "message_loop"
    /\ gap_log # None
    /\ sequence_numbers[gap_log.sid] = gap_log.received
    /\ outbox = <<>>

C8_QueueDoneBeforeMessages == pc = "message_loop" => resub_queue = <<>>

C8_EverySubscriptionSent ==
    /\ connect_ok => SeqToSet(resub_queue') = subscriptions
    /\ resubscribe_all(FALSE) => resub_queue' = Tail(resub_queue)
    /\ resubscribe_all(TRUE) =>
           LET sub == sub_info[Head(resub_queue)]
           IN /\ Len(outbox') = 1
              /\ outbox'[1].cmd = "subscribe"
              /\ outbox'[1].channels = sub.channels
              /\ outbox'[1].market_tickers = sub.market_tickers

\* C8: after every successful connect and before any message is processed,
\* a subscribe command is sent for every subscription in the table, carrying
\* its recorded channels and market_tickers; a failed send does not keep the
\* others from being sent.
C8_ResubscribeCarriesRecorded ==
    [](C8_QueueDoneBeforeMessages) /\ [][C8_EverySubscriptionSent]_vars

ArgSet(opt) == IF opt = None THEN {} ELSE SeqToSet(opt.list)

\* C9: after update_subscription(sid, add, remove) returned for a known sid
\* that has a ticker list, the recorded market_tickers are (previous tickers
\* plus add) minus remove, whether connected or not.
C9_TickersFollowUpdate ==
    (ev.op = "update_subscription" /\ ev.returned /\ ev.known /\ ev.previous # None) =>
        SeqToSet(sub_info[ev.sid].market_tickers.list)
            = (SeqToSet(ev.previous.list) \cup ArgSet(ev.add)) \ ArgSet(ev.remove)

\* C10: the reconnect delay is always within [1, 60]; it is 1 after every
\* successful connect; the n-th sleep since the last successful connect
\* lasts min(2^(n-1), 60): 1, 2, 4, ... capped at 60.
C10_BackoffDoublesCapped ==
    /\ reconnect_delay \in 1..60
    /\ pc \in {"resubscribing", "message_loop"} => reconnect_delay = 1
    /\ sleep_n >= 1 => last_sleep = Min(2 ^ (sleep_n - 1), 60)

C10_Witness ==
    /\ sleep_n >= 7
    /\ last_sleep = 60
    /\ reconnect_delay = 60

\* ----------------------------------------------------------------------
\* Claims about the signal aggregator
\* ----------------------------------------------------------------------

\* the last call computed a composite
Computed == agg_ev.kind \in {"not_published", "published", "publish_failed"}
                /\ agg_ev.composite # None

Unrounded(composite) ==
    LET acc == Accumulate(composite.active_signals, regime_mods(composite.regime), <<0, 0>>)
    IN <<Clamp(acc[1], acc[2]), acc[2]>>

\* C12 as stated: the score is within [-1, +1], the direction is neutral
\* whenever |score| < 0.1, buy_yes only for a score > 0.1 and buy_no only for
\* a score < -0.1, for the unrounded score and for the stored one
C12_DirectionDeadZoneStored ==
    Computed =>
        LET c == agg_ev.composite
            u == Unrounded(c)
        IN /\ c.composite_score >= 0 - 10000 /\ c.composite_score <= 10000
           /\ (Abs(c.composite_score) < 1000 => c.direction = "neutral")
           /\ (Abs(u[1]) < 10000 * u[2] => c.direction = "neutral")
           /\ (c.direction = "buy_yes" => u[1] > 10000 * u[2] /\ c.composite_score > 1000)
           /\ (c.direction = "buy_no" => u[1] < 0 - 10000 * u[2]
                                          /\ c.composite_score < 0 - 1000)

\* C12 amended: the score is within [-1, +1]; the direction is neutral
\* whenever |score| < 0.1, before and after rounding; buy_yes only for an
\* unrounded score > 0.1, which is stored as a score >= 0.1, and buy_no only
\* for an unrounded score < -0.1, stored as a score <= -0.1
C12_DirectionDeadZone ==
    Computed =>
        LET c == agg_ev.composite
            u == Unrounded(c)
        IN /\ c.composite_score >= 0 - 10000 /\ c.composite_score <= 10000
           /\ (Abs(c.composite_score) < 1000 => c.direction = "neutral")
           /\ (Abs(u[1]) < 10000 * u[2] => c.direction = "neutral")
           /\ (c.direction = "buy_yes" => u[1] > 10000 * u[2] /\ c.composite_score >= 1000)
           /\ (c.direction = "buy_no" => u[1] < 0 - 10000 * u[2]
                                          /\ c.composite_score <= 0 - 1000)

\* a buy_yes composite whose stored score is exactly 0.1
C12_Witness ==
    /\ Computed
    /\ agg_ev.composite.direction = "buy_yes"
    /\ agg_ev.composite.composite_score = 1000

\* the entries of the composite stream for one market
EntriesOf(ticker) ==
    {i \in 1..Len(composite_stream) : composite_stream[i].market_ticker = ticker}

C14_PublishedAboveThreshold ==
    /\ \A i \in 1..Len(composite_stream) :
          /\ Abs(composite_stream[i].composite_score) >= 4000
          /\ composite_stream[i].direction # "neutral"
    /\ (Computed /\ Abs(agg_ev.composite.composite_score) < 4000)
          => agg_ev.kind = "not_published"
    /\ (Computed /\ agg_ev.kind = "not_published")
          => Abs(agg_ev.composite.composite_score) < 4000

\* a composite published with a score of exactly -0.4, and a weaker one dropped
C14_Witness ==
    /\ \E i \in 1..Len(composite_stream) : composite_stream[i].composite_score = 0 - 4000
    /\ Computed
    /\ agg_ev.kind = "not_published"
    /\ agg_ev.composite.composite_score > 0

\* sums over the signals 1..n of a list
RECURSIVE RefWeighted(_, _, _)
RECURSIVE RefTotal(_, _, _)
RefWeight(s, regime) ==
    LET base == IF s.signal_type \in DOMAIN SIGNAL_WEIGHTS
                THEN SIGNAL_WEIGHTS[s.signal_type] ELSE 10
        mod == IF regime \in DOMAIN REGIME_MODIFIERS
                  /\ s.signal_type \in DOMAIN REGIME_MODIFIERS[regime]
               THEN REGIME_MODIFIERS[regime][s.signal_type] ELSE 10
    IN base * mod * s.confidence
RefWeighted(list, regime, n) ==
    IF n = 0 THEN 0
    ELSE RefWeighted(list, regime, n - 1)
         + (CASE list[n].direction = "buy_yes" -> list[n].strength * RefWeight(list[n], regime)
              [] list[n].direction = "buy_no" -> 0 - list[n].strength * RefWeight(list[n], regime)
              [] OTHER -> 0)
RefTotal(list, regime, n) ==
    IF n = 0 THEN 0 ELSE RefTotal(list, regime, n - 1) + RefWeight(list[n], regime)

\* the two signals of the conflicting-signals scenario, as received at time ts
S4Signals(ticker, ts) ==
    <<[signal_type |-> "flow_toxicity", market_ticker |-> ticker, direction |-> "buy_yes",
       strength |-> 80000, confidence |-> 7, ts |-> ts, ttl_seconds |-> 5],
      [signal_type |-> "oi_divergence", market_ticker |-> ticker, direction |-> "buy_no",
       strength |-> 90000, confidence |-> 8, ts |-> ts, ttl_seconds |-> 5]>>

\* C15: the composite score is clamp(sum(strength * direction_mult * w) / sum(w), -1, +1)
\* with w = base_weight * regime_mod * confidence, rounded to four decimals;
\* neutral signals add to the denominator only; a missing regime key gives
\* regime unknown with every modifier 1.0; the two conflicting signals of
\* scenario S4 in regime active give a neutral composite of about -0.041
C15_CompositeScoreFormula ==
    Computed =>
        LET c == agg_ev.composite
            n == Len(c.active_signals)
            sum == RefWeighted(c.active_signals, c.regime, n)
            total == RefTotal(c.active_signals, c.regime, n)
            clamped == IF sum > 100000 * total THEN 100000 * total
                       ELSE IF sum < 0 - 100000 * total THEN 0 - 100000 * total
                       ELSE sum
        IN /\ c.regime \in MarketRegimes
           /\ total > 0
           /\ 2 * Abs(10 * total * c.composite_score - clamped) <= 10 * total
           /\ c.direction = (IF clamped > 10000 * total THEN "buy_yes"
                             ELSE IF clamped < 0 - 10000 * total THEN "buy_no"
                             ELSE "neutral")
           /\ (c.active_signals = S4Signals(c.market_ticker, c.ts) /\ c.regime = "active")
                 => /\ c.direction = "neutral"
                    /\ c.composite_score = 0 - 412
                    /\ agg_ev.kind = "not_published"

\* scenario S4 has been computed, and a composite with a neutral signal in it
C15_Witness ==
    /\ Computed
    /\ agg_ev.composite.active_signals = S4Signals("M1", agg_ev.composite.ts)
    /\ agg_ev.composite.regime = "active"
    /\ agg_ev.composite.composite_score = 0 - 412

\* ----------------------------------------------------------------------
\* Claims about the regime detector
\* ----------------------------------------------------------------------

\* C16: a regime_change signal is emitted only when the classified regime
\* differs from the recorded one: consecutive regime_change signals of a
\* market never carry the same new_regime, and while every classification
\* has given the same regime there is no regime_change after the first
C16_RegimeChangeOnlyOnChange ==
    /\ \A i \in 1..Len(regime_out) :
          /\ regime_out[i].new_regime # regime_out[i].old_regime
          /\ regime_out[i].old_regime =
                (IF i = 1 THEN "unknown" ELSE regime_out[i - 1].new_regime)
          /\ i > 1 => regime_out[i].new_regime # regime_out[i - 1].new_regime
    /\ Cardinality(classified) <= 1 => Len(regime_out) <= 1

\* the same regime classified again one publish interval later, by calls
\* that were suspended together: one regime_change only
C16_Witness ==
    /\ classified = {"dead"}
    /\ Len(regime_out) = 1
    /\ regime_out[1].ts = Epoch
    /\ "M1" \in DOMAIN last_regime_publish
    /\ last_regime_publish["M1"] = Epoch + publish_interval
    /\ \A s \in REGIME_INPUT_STREAMS : reg_task[s] = None

\* ----------------------------------------------------------------------
\* Claims about the flow toxicity classifier
\* ----------------------------------------------------------------------

\* the flow_toxicity signals of the last trade that come from the VPIN of
\* the bucket it filled
VpinSignals ==
    {i \in 1..Len(tox_ev.signals) : tox_ev.signals[i].pattern = "vpin"}

\* C17: a trade that fills the bucket with VPIN > 0.80 emits a flow_toxicity
\* signal with strength = VPIN and the direction of the filled bucket's buy
\* ratio (buy_yes above 0.6, buy_no below 0.4, else neutral); a bucket of
\* taker_side=yes trades only gives buy_yes, strength 1.0, urgency immediate
C17_ToxicityDirectionOfFilledBucket ==
    (tox_ev.kind = "added" /\ tox_ev.closed /\ tox_ev.vpin > vpin_threshold) =>
        /\ Cardinality(VpinSignals) = 1
        /\ \A i \in VpinSignals :
              /\ tox_ev.signals[i].strength = tox_ev.vpin
              /\ tox_ev.signals[i].direction =
                    (IF 10 * tox_ev.filled_buy_volume > 6 * tox_ev.filled_volume
                     THEN "buy_yes"
                     ELSE IF 10 * tox_ev.filled_buy_volume < 4 * tox_ev.filled_volume
                     THEN "buy_no" ELSE "neutral")
              /\ tox_ev.filled_buy_volume = tox_ev.filled_volume =>
                    /\ tox_ev.signals[i].direction = "buy_yes"
                    /\ tox_ev.signals[i].strength = 1000000
                    /\ tox_ev.signals[i].urgency = "immediate"

\* C18: the bucket closes exactly when the volume accumulated since the last
\* reset reaches 25, appending one VPIN and resetting the bucket: of 50
\* trades of count 1 on a fresh market, the 25th and the 50th close a bucket
C18_BucketClosesAtBucketSize ==
    /\ unit_trades =>
          /\ Len(closed_at) = fed \div bucket_size
          /\ \A k \in 1..Len(closed_at) : closed_at[k] = k * bucket_size
    /\ \A t \in DOMAIN flow_state :
          /\ flow_state[t].current_bucket_volume < bucket_size
          /\ Len(flow_state[t].bucket_vpins) = Len(closed_at)

\* ---------------------------------------------------------------- C19
\* the cached threshold of a market, None when it is not cached
CachedThreshold(t) == Get(threshold_cache, t, None)

\* C19: a price move emits a cross_market_propagation signal for a (source,
\* target) pair only when both markets have a cached, parsed threshold of the
\* same type, above or below, with different values; with a threshold that is
\* unparseable or not cached, with different types, with the type between or
\* with equal values nothing is emitted for the pair.
C19_PropagationNeedsComparableThresholds ==
    prop_ev.kind = "checked" =>
        \A sig \in prop_ev.signals :
            LET src == CachedThreshold(sig.source_market)
                tgt == CachedThreshold(sig.market_ticker)
            IN /\ src # None /\ tgt # None
               /\ src = ParseTitles(db_titles[sig.source_market])
               /\ tgt = ParseTitles(db_titles[sig.market_ticker])
               /\ src.type = tgt.type
               /\ src.type \in {"above", "below"}
               /\ src.value # tgt.value

\* a price move of A has emitted a signal for B, both with a "below" threshold
C19_Witness ==
    /\ prop_ev.kind = "checked"
    /\ \E sig \in prop_ev.signals :
          /\ sig.source_market = "A" /\ sig.market_ticker = "B"
          /\ CachedThreshold("A") # None /\ CachedThreshold("B") # None
          /\ CachedThreshold("A").type = "below"
          /\ CachedThreshold("A").value # CachedThreshold("B").value

\* ---------------------------------------------------------------- C20
\* C20: once emit_signal has finished for a signal, normally or by raising,
\* the signal is on the processor's own topic exactly when it is on
\* kalshi:signals:all.
C20_OnBothTopicsOrNone ==
    \A sig \in 1..MaxEmitted :
        (\E i \in DOMAIN own_topic : own_topic[i] = sig)
            <=> (\E i \in DOMAIN all_topic : all_topic[i] = sig)

\* ---------------------------------------------------------------- C21
\* C21: an entry left unacknowledged because the handler raised in live read
\* is handed to the handler again by a later read cycle of the same running
\* consumer, without a restart.
C21_RaisedEntryRedeliveredLive ==
    \A id \in 1..MaxStream :
        (cphase = "live" /\ id \in pel /\ last.outcome = "raised" /\ id \in last.ids)
            ~> (cphase # "live" \/ id \in last.again)

\* ---------------------------------------------------------------- C22
\* C22: when pending replay ends without the handler having raised, no entry
\* with non-empty fields is left pending, wherever the tombstones are.
C22_ReplayExhaustsPending ==
    [][ (cphase = "pending" /\ cphase' = "live" /\ (pel = {} \/ last'.outcome = "skipped"))
        => pel' \subseteq deleted' ]_vars

\* ---------------------------------------------------------------- C23
\* the failed attempts of a flush
Failures(f) == IF f.flush = "ok" THEN f.attempts - 1 ELSE f.attempts

\* C23: every flush of a writer makes at most 3 insert attempts, sleeps 2 s,
\* 4 s and 8 s after its first, second and third failure, and returns after
\* its first successful attempt.
C23_BoundedRetryWithBackoff ==
    \A i \in DOMAIN flush_ev.flushes :
        LET f == flush_ev.flushes[i]
        IN /\ f.attempts <= MAX_RETRIES
           /\ f.sleeps = [j \in 1..Failures(f) |-> 2 ^ j]

\* the same statement for the writers that have the retry loop
RetryLoopBacksOff ==
    flush_ev.kind # "ob_snapshot" => C23_BoundedRetryWithBackoff

\* ---------------------------------------------------------------- C24
\* C24: apply_delta for a market with no stored book writes nothing: the key
\* of that market stays absent and every other book is unchanged; a later
\* snapshot for that market stores exactly the snapshot's levels.
C24_DeltaWithoutBookWritesNothing ==
    /\ [][ (book_ev'.op = "delta" /\ ~book_ev'.had_book)
           => (books' = books /\ book_ev'.ticker \notin DOMAIN books') ]_vars
    /\ [](book_ev.op = "snapshot" =>
             \A side \in Sides :
                LET levels == book_ev.snapshot[side]
                    stored == books[book_ev.ticker][side]
                IN /\ DOMAIN stored = {Str(levels[i][1]) : i \in DOMAIN levels}
                   /\ \A i \in DOMAIN levels : stored[Str(levels[i][1])] = levels[i][2])

\* a delta for MKT-2 was dropped while MKT-1 had a book, and a later
\* snapshot has defined the book of MKT-2
C24_Witness ==
    /\ book_ev.op = "snapshot" /\ book_ev.ticker = "MKT-2" /\ book_ev.after_drop
    /\ "MKT-1" \in DOMAIN books
    /\ books["MKT-1"].yes # EmptyDict
    /\ books["MKT-2"].no # EmptyDict

\* ---------------------------------------------------------------- C25
\* C25: a message whose payload fails validation publishes nothing to any
\* topic and changes no key of the state store, and the message loop keeps
\* running for the following messages.
C25_InvalidPayloadHasNoEffect ==
    [][ (ingest_ev'.kind = "message" /\ ingest_ev'.n = recv' /\ recv' = recv + 1
         /\ ~ingest_ev'.valid)
        => (topics' = topics /\ books' = books /\ loop_alive') ]_vars

\* right after an orderbook snapshot whose payload failed validation
\* (message 1, no book stored), a trade (message 2) was published
C25_Witness ==
    /\ ingest_ev.kind = "message" /\ ingest_ev.n = 2 /\ ingest_ev.after_invalid
    /\ ingest_ev.type = "trade" /\ ingest_ev.published
    /\ topics["kalshi:trades"] = <<2>>
    /\ topics["kalshi:orderbook:snapshots"] = <<>>
    /\ books = EmptyDict

\* ---------------------------------------------------------------- C26
\* C26: every topic holds the messages routed to it in the order they were
\* received: a message received earlier is never appended after a later one,
\* and each step appends at most the message being processed.
C26_IngestPreservesOrder ==
    /\ [](\A t \in IngestTopics : \A i, j \in DOMAIN topics[t] :
             i < j => topics[t][i] < topics[t][j])
    /\ [][ \A t \in IngestTopics :
             topics'[t] = topics[t] \/ topics'[t] = Append(topics[t], recv') ]_vars

\* ticker (message 1) and ticker_v2 (message 3) share a topic, with a trade
\* in between
C26_Witness ==
    /\ topics["kalshi:ticker_v2"] = <<1, 3>>
    /\ topics["kalshi:trades"] = <<2>>

\* ---------------------------------------------------------------- C27
\* C27: once markets.status of a ticker is settled or determined, no
\* lifecycle event and no scan upsert changes it to another status.
C27_TerminalStatusStays ==
    [][ \A t \in DOMAIN markets_status :
            markets_status[t] \in {"settled", "determined"}
                => markets_status'[t] = markets_status[t] ]_vars

\* ---------------------------------------------------------------- C28
\* C28: a committed lifecycle event sets markets.status of its market to the
\* event's status when that is non-empty and otherwise to its event_type.
C28_StatusPreferredOverEventType ==
    (life_ev.kind = "lifecycle" /\ life_ev.committed /\ life_ev.had_row)
        => markets_status[life_ev.event.market_ticker] = StatusOrEventType(life_ev.event)

\* ---------------------------------------------------------------- C29
\* C29: a complete run of backfill_trades over a window whose trades are all
\* in the trades table inserts no row and returns the number of trades
\* fetched; a second run over the same window returns the same count and
\* leaves the table unchanged.
C29_BackfillIdempotentCountsFetched ==
    [][ (bf_ev'.run = bf_ev.run + 1 /\ bf_ev'.complete /\ bf_ev'.all_present)
        => /\ table' = table
           /\ bf_ev'.returned = FetchedCount(bf_ev'.pages)
           /\ (bf_ev.kind = "run" /\ bf_ev.complete /\ bf_ev.pages = bf_ev'.pages)
                 => bf_ev'.returned = bf_ev.returned ]_vars

\* the second run over a window of two pages with three trades fetched, all
\* of them in the table already: it returned 3
C29_Witness ==
    /\ bf_ev.kind = "run" /\ bf_ev.run = 2 /\ bf_ev.complete /\ bf_ev.all_present
    /\ bf_ev.pages = <<<<"X1", "X2">>, <<"X1">>>>
    /\ bf_ev.returned = 3
    /\ BagCardinality(table) = 2

\* ---------------------------------------------------------------- C30
\* a raw signal whose computed strength or confidence is out of [0, 1]
OutOfRange(raw) ==
    \/ Min(ONE, raw.strength) < 0
    \/ raw.confidence < 0 \/ raw.confidence > ONE

\* C30: every published signal has strength and confidence in [0, 1]; a
\* message for which a computed value is out of range publishes no signal.
C30_PublishedSignalsInRange ==
    /\ [](\A i \in DOMAIN signal_topic :
             /\ signal_topic[i].strength \in 0..ONE
             /\ signal_topic[i].confidence \in 0..ONE)
    /\ [][ (\E i \in DOMAIN make_ev'.raws : OutOfRange(make_ev'.raws[i]))
           => signal_topic' = signal_topic ]_vars

\* a message whose second signal has confidence 1.5 published nothing, after
\* a signal with raw strength 1.5 was published with strength 1.0
C30_Witness ==
    /\ make_ev.kind = "message_processing_error"
    /\ Len(make_ev.raws) = 2
    /\ ~OutOfRange(make_ev.raws[1])
    /\ make_ev.raws[2].confidence = 15
    /\ signal_topic = <<[strength |-> ONE, confidence |-> 0]>>

\* ---------------------------------------------------------------- C31
\* C31: when unsubscribe(sids) has returned, no given sid is in the
\* subscription table or in the sequence-number map, with or without a
\* connection; the other subscriptions and their sequence numbers are as
\* before; and a reconnect that starts later queues for resubscription
\* exactly the subscriptions still in the table.
C31_UnsubscribeDropsState ==
    /\ []((ev.op = "unsubscribe" /\ ev.returned) =>
            /\ subscriptions = ev.subs \ ev.sids
            /\ DOMAIN sequence_numbers = DOMAIN ev.seqs \ ev.sids
            /\ \A s \in DOMAIN sequence_numbers : sequence_numbers[s] = ev.seqs[s])
    /\ [][(pc = "connecting" /\ connected') => SeqToSet(resub_queue') = subscriptions']_vars

\* without a connection, sid 1 of two subscriptions that both have a
\* sequence number was unsubscribed
C31_Witness ==
    /\ ev.op = "unsubscribe" /\ ev.returned /\ ~ev.open
    /\ ev.sids = {1}
    /\ ev.subs = {1, 2}
    /\ DOMAIN ev.seqs = {1, 2}
    /\ subscriptions = {2}

\* ---------------------------------------------------------------- C32
\* C32: every processor receives every entry of each of its input topics:
\* once no read of the group returns anything more on a topic, each
\* processor of the topic has been handed all its entries.
C32_EveryProcessorReceivesEveryEntry ==
    \A topic \in GroupTopics :
        (\A p \in Processors(topic) : group_last[topic][GroupOf(p, topic)] = topic_len[topic])
            => \A p \in Processors(topic) : received[topic][p] = 1..topic_len[topic]

\* ---------------------------------------------------------------- C33
\* C33: for each market the regime key is written, and a regime change
\* evaluated, at most once per publish interval: two writes for the same
\* market are at least publish_interval apart.
C33_OneRegimeWritePerInterval ==
    \A i \in 1..Len(regime_writes) : \A j \in (i + 1)..Len(regime_writes) :
        regime_writes[i].ticker = regime_writes[j].ticker
            => regime_writes[j].ts - regime_writes[i].ts >= publish_interval

\* ---------------------------------------------------------------- C34
\* C34: after process_message the market's active list holds at most
\* max_active_signals_per_market signals, none of them expired, and they
\* are the most recent live ones of the list with the new signal appended.
C34_ActiveListMostRecentLive ==
    [][ (agg_ev' # agg_ev /\ agg_ev'.kind \notin {"start", "parse_skip"}) =>
          LET t == agg_ev'.ticker
              live == SelectSeqLive(Append(Get(active_signals, t, <<>>), agg_ev'.signal), clock)
              after == active_signals'[t]
          IN /\ Len(after) <= max_active_signals_per_market
             /\ \A i \in 1..Len(after) : ~is_expired(after[i], clock)
             /\ after = LastN(live, max_active_signals_per_market) ]_vars

\* ---------------------------------------------------------------- C35
\* C35: a batch with an entry that does not parse or validate: the handler
\* returns, every other entry of the batch is processed, and the whole
\* batch, the bad entry included, is acknowledged (when XACK goes through);
\* an acknowledged entry is never handed to the handler again.
C35_BadEntrySkippedAndAcked ==
    (cyc_ev.op # "start") =>
        /\ cyc_ev.outcome = "returned"
        /\ cyc_ev.handled = {id \in cyc_ev.ids : cyc_stream[id]}
        /\ cyc_ev.ackOk => (cyc_ev.acked /\ cyc_ev.ids \cap cyc_pel = {}
                             /\ cyc_ev.ids \subseteq cyc_acked)
        /\ cyc_ev.again = {}
        /\ cyc_acked \cap cyc_pel = {}

\* a batch of a bad entry followed by a good one: the good one was
\* processed and both were acknowledged
C35_Witness ==
    /\ cyc_ev.op = "consume"
    /\ cyc_ev.ids = {1, 2}
    /\ ~cyc_stream[1] /\ cyc_stream[2]
    /\ cyc_ev.handled = {2}
    /\ cyc_ev.acked
    /\ cyc_acked = {1, 2}
    /\ cyc_pel = {}

\* ---------------------------------------------------------------- C36
\* C36: a trade for a market with total_volume < 200 and total_trades > 10
\* is skipped: it changes nothing of the market's state and emits no signal,
\* so the rule holds for the market's next trade too.
C36_SkippedTradeChangesNothing ==
    [][ \A t \in DOMAIN flow_state :
          (fed' # fed /\ flow_state[t].total_volume < min_market_volume
                      /\ flow_state[t].total_trades > 10)
             => /\ flow_state' = flow_state
                /\ tox_ev'.kind = "skipped"
                /\ tox_ev'.signals = <<>> ]_vars
    /\ [][ (tox_ev.kind = "skipped" /\ fed' # fed) => tox_ev'.kind = "skipped" ]_vars
    /\ [][ (tox_ev'.kind = "skipped" /\ fed' # fed) =>
              /\ flow_state' = flow_state
              /\ \E t \in DOMAIN flow_state : flow_state[t].total_trades > 10 ]_vars

\* the third trade in a row skipped for a market with eleven trades
C36_Witness ==
    /\ tox_ev.kind = "skipped"
    /\ fed = 14
    /\ "M1" \in DOMAIN flow_state
    /\ flow_state["M1"].total_trades = 11
    /\ flow_state["M1"].total_volume < min_market_volume

\* ---------------------------------------------------------------- C37
\* the tickers recorded in the WebSocket manager's orderbook_delta
\* subscription, which _resubscribe_all sends on reconnect
RecordedObTickers ==
    IF orderbook_sid = NoSid \/ orderbook_sid \notin subscriptions THEN {}
    ELSE SeqToSet(sub_info[orderbook_sid].market_tickers.list)

\* C37: after every call of on_markets_discovered, on_markets_closed and
\* reconcile, with disconnects and reconnects in between, the manager's
\* active orderbook tickers are the tickers recorded in the orderbook_delta
\* subscription.
C37_ActiveTickersMatchSubscription == active_ob_tickers = RecordedObTickers

\* ---------------------------------------------------------------- C38
\* the spread of the book whose levels a row carries
SpreadOfLevels(yes_levels, no_levels) ==
    IF yes_levels = {} \/ no_levels = {} THEN None
    ELSE [spread |-> 100 - MaxPrice(yes_levels) - MaxPrice(no_levels)]

\* C38: a row written by the periodic snapshot task is consistent: its
\* spread and depths are those of the book its yes_levels and no_levels show.
C38_SnapshotRowConsistent ==
    snap_row # None =>
        /\ snap_row.spread = SpreadOfLevels(snap_row.yes_levels, snap_row.no_levels)
        /\ snap_row.yes_depth_5 = SumQty(snap_row.yes_levels)
        /\ snap_row.no_depth_5 = SumQty(snap_row.no_levels)

\* ---------------------------------------------------------------- C39
\* the five rules, in the units of the features
PreSettleRule(f) ==
    f.last_price # Absent /\ (f.last_price <= 5 \/ f.last_price >= 95) /\ f.trade_rate > 20
DeadRule(f) == f.trade_rate < 2 /\ f.message_rate < 10
InformedRule(f) == (f.depth_imbalance > 60 \/ f.depth_imbalance < 0 - 60) /\ f.trade_rate > 50
ActiveRule(f) == f.trade_rate > 20 /\ f.message_rate > 50

\* C39: classify returns the first matching regime in the order pre_settle,
\* dead, informed, active, else quiet, for every combination of inputs, and
\* never unknown.
C39_ClassifyFirstMatchWins ==
    cls_ev.op = "classify" =>
        LET f == cls_ev.f
            r == cls_ev.regime
        IN /\ r \in {"pre_settle", "dead", "informed", "active", "quiet"}
           /\ r = "pre_settle" <=> PreSettleRule(f)
           /\ r = "dead" <=> (~PreSettleRule(f) /\ DeadRule(f))
           /\ r = "informed" <=> (~PreSettleRule(f) /\ ~DeadRule(f) /\ InformedRule(f))
           /\ r = "active" <=>
                 (~PreSettleRule(f) /\ ~DeadRule(f) /\ ~InformedRule(f) /\ ActiveRule(f))
           /\ r = "quiet" <=>
                 (~PreSettleRule(f) /\ ~DeadRule(f) /\ ~InformedRule(f) /\ ~ActiveRule(f))

\* features that match both the informed and the active rule
C39_Witness ==
    /\ cls_ev.op = "classify"
    /\ ~PreSettleRule(cls_ev.f) /\ InformedRule(cls_ev.f) /\ ActiveRule(cls_ev.f)
    /\ cls_ev.regime = "informed"

\* ---------------------------------------------------------------- C40
\* the open events of a market processed less than 300 s before the message
OpensBefore(e) ==
    {o \in e.opened : o.ticker = e.ticker /\ o.ts <= e.time /\ e.time - o.ts < 300}

\* C40: a ticker update makes the scanner return new_market_open or
\* new_market_extreme_price signals only if an open lifecycle event of that
\* market was processed less than 300 s before; an update for a market never
\* seen opening, or 300 s or more after the open, returns nothing.
C40_TickerSignalsOnlyInWindow ==
    alpha_ev.op = "ticker" =>
        /\ \A i \in 1..Len(alpha_ev.signals) :
              /\ alpha_ev.signals[i].signal_type \in
                     {"new_market_open", "new_market_extreme_price"}
              /\ alpha_ev.signals[i].market_ticker = alpha_ev.ticker
        /\ alpha_ev.signals # <<>> => OpensBefore(alpha_ev) # {}
        /\ OpensBefore(alpha_ev) = {} => alpha_ev.signals = <<>>

\* an update at price 20, 299 s after the open, returns both signals; the
\* market had an earlier open
C40_Witness ==
    /\ alpha_ev.op = "ticker"
    /\ alpha_ev.price = 20
    /\ Len(alpha_ev.signals) = 2
    /\ \E o \in alpha_ev.opened : o.ticker = alpha_ev.ticker /\ alpha_ev.time - o.ts = 299

====
